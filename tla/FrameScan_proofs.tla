-------------------------- MODULE FrameScan_proofs --------------------------
(***************************************************************************)
(* For entries of any size and number, any number of interrupted appends,  *)
(* reopenings and, each after the last was cut off, damaged bytes:         *)
(*                                                                         *)
(*   ReadsIntactFrames   a scan visits the frames in front of the damage   *)
(*   CrashRecovered      a crash in an append never makes a scan fail      *)
(*   BodyDamageReported  a changed payload or trailer does, if more of the *)
(*                       file follows                                      *)
(*                                                                         *)
(* They speak of what a scan returns, and a step changes bytes. Between    *)
(* the two stands a layout (IsLayout): frames one behind the other, which  *)
(* the file holds but for the damaged byte (HoldsFrames, DamageInv), and   *)
(* behind them nothing, a part of the next frame, or its space full of     *)
(* zeros (TailInv). The frames that were written are those of the layout   *)
(* with an entry (WrittenInv), and an open handle is at its end            *)
(* (HandleInv). LayoutInv is inductive; what a scan makes of any such file *)
(* are ScanUndamaged and ScanDamaged.                                      *)
(*                                                                         *)
(* Two things are not evident. Space is frames to a scan without a MAC, so *)
(* the layout is one with the least behind it (WholeLayout). And a changed *)
(* length makes the reader look for the trailer elsewhere, where there     *)
(* could be one: it would have to be of the payload in front of it, but    *)
(* the trailers of the file are of payloads of other lengths               *)
(* (ReadsDamagedPrefix, StampsOfFile).                                     *)
(***************************************************************************)
EXTENDS FrameScan, FiniteSetTheorems, WellFoundedInduction, TLAPS

\* What a byte of the file may be: its value, and what it is a checksum of.
FileByte == [value : 0..(Radix - 1), of : Seq(Covered)]
Frame == [index : Nat, byteOffset : Nat, payload : Seq(Bytes)]

\* The bytes of a frame, and where frames begin and end.
SizeOf(payload) == PrefixSize + Len(payload) + TrailerSize
StartOf(frames, i) == IF i = 1 THEN 0 ELSE frames[i - 1].byteOffset
EndOf(frames) == IF frames = <<>> THEN 0 ELSE frames[Len(frames)].byteOffset

\* What the trailer of a frame is the checksum of.
Checked(payload, index) ==
  (IF mac THEN <<Byte(index)>> \o Prefix(payload) ELSE <<>>) \o payload
Stamp(payload, index) == [value |-> 0, of |-> Checked(payload, index)]

\* Of an entry; or of none, which a scan without a MAC reads in space.
IsPayload(payload) ==
  /\ payload \in Seq(Bytes) /\ Len(payload) <= MaxPayload
  /\ IF payload = <<>> THEN ~mac ELSE payload[1].value # 0

\* Frames one behind the other, numbered from 1.
IsLayout(frames) ==
  /\ frames \in Seq(Frame)
  /\ \A i \in DOMAIN frames :
       /\ frames[i].index = i
       /\ frames[i].byteOffset = StartOf(frames, i) + SizeOf(frames[i].payload)
       /\ IsPayload(frames[i].payload)

\* The file holds them, except for the byte that is damaged.
HoldsFrames(frames) ==
  /\ EndOf(frames) <= Len(file)
  /\ \A i \in DOMAIN frames : \A k \in 1..SizeOf(frames[i].payload) :
       StartOf(frames, i) + k # damaged =>
         file[StartOf(frames, i) + k] = MakeFrame(frames[i].payload, i)[k]

DamageInv(frames) ==
  damaged # 0 =>
    /\ file[damaged] \in Bytes
    /\ \E i \in DOMAIN frames : \E k \in 1..SizeOf(frames[i].payload) :
         /\ damaged = StartOf(frames, i) + k
         /\ file[damaged] # MakeFrame(frames[i].payload, i)[k]

\* What follows them is a part of the next frame, or its space.
TornFrame(frames) ==
  \E payload \in Seq(Bytes) :
    /\ IsPayload(payload) /\ payload # <<>>
    /\ Len(file) < EndOf(frames) + SizeOf(payload)
    /\ \A k \in 1..(Len(file) - EndOf(frames)) :
         file[EndOf(frames) + k] = MakeFrame(payload, Len(frames) + 1)[k]
TornSpace(frames) ==
  unwritten /\ \A k \in 1..(Len(file) - EndOf(frames)) : file[EndOf(frames) + k] = Byte(0)
TailInv(frames) == EndOf(frames) = Len(file) \/ TornFrame(frames) \/ TornSpace(frames)

\* An open handle appends behind the last frame.
HandleInv(frames) ==
  handle.open => /\ EndOf(frames) = Len(file)
                 /\ handle.count = Len(frames) /\ handle.size = Len(file)

WrittenInv(frames) == written = {frames[i] : i \in {n \in DOMAIN frames : IsEntry(frames[n])}}

LayoutInv(frames) ==
  /\ IsLayout(frames) /\ HoldsFrames(frames) /\ DamageInv(frames) /\ TailInv(frames)
  /\ HandleInv(frames) /\ WrittenInv(frames)

IInv == TypeOK /\ \E frames \in Seq(Frame) : LayoutInv(frames)

-----------------------------------------------------------------------------
\* Lemmas

\* The order of the numbers.
Less == {mn \in Nat \X Nat : mn[1] < mn[2]}

\* The order of the numbers has no infinite descent.
LEMMA LessWellFounded == IsWellFoundedOn(Less, Nat)
BY NatLessThanWellFounded DEF OpToRel, Less

\* A set of numbers that is not empty has a least one.
LEMMA LeastNatural ==
  ASSUME NEW S \in SUBSET Nat, S # {}
  PROVE  \E least \in S : \A n \in S : least <= n
<1>1. PICK x \in S : \A y \in S : <<y, x>> \notin Less
  BY LessWellFounded, WFMin
<1>2. \A y \in S : x <= y
  <2> SUFFICES ASSUME NEW y \in S, y < x PROVE FALSE
    OBVIOUS
  <2>1. <<y, x>> \in Nat \X Nat /\ <<y, x>>[1] = y /\ <<y, x>>[2] = x
    OBVIOUS
  <2> QED
    BY <1>1, <2>1 DEF Less
<1> QED
  BY <1>2

\* A prefix has room for the length of a payload, and for no other.
LEMMA PrefixDecodes ==
  ASSUME NEW n \in 0..MaxPayload
  PROVE  /\ n \div Radix \in 0..(Radix - 1) /\ n % Radix \in 0..(Radix - 1)
         /\ (n \div Radix) * Radix + (n % Radix) = n
BY ScanBounds, PrefixHoldsTheLimit

\* Two lengths with one prefix are the same.
LEMMA PrefixIsUnique ==
  ASSUME NEW a \in 0..(Radix - 1), NEW b \in 0..(Radix - 1),
         NEW c \in 0..(Radix - 1), NEW d \in 0..(Radix - 1),
         a * Radix + b = c * Radix + d
  PROVE  a = c /\ b = d
BY ScanBounds

\* The recursion of FrameEnds is defined, and its value at each frame is that of its body.
LEMMA EndsUnfold ==
  ASSUME NEW bytes, Len(bytes) \in Nat
  PROVE  FrameEnds(bytes) = [i \in 0..Len(bytes) |->
           IF i = 0 THEN 0
           ELSE FrameEnds(bytes)[i - 1] + ReadFrame(bytes, FrameEnds(bytes)[i - 1], i).claimed]
<1> DEFINE Step(g, i) == IF i = 0 THEN 0
                          ELSE g[i - 1] + ReadFrame(bytes, g[i - 1], i).claimed
           Has(n) == \E g : g = [i \in 0..n |-> Step(g, i)]
           Bad == {n \in Nat : ~Has(n)}
<1>1. Bad = {}
  <2> SUFFICES ASSUME Bad # {} PROVE FALSE
    OBVIOUS
  <2>1. PICK n \in Bad : \A m \in Bad : n <= m
    BY LeastNatural
  <2>2. n # 0
    <3>1. [i \in {0} |-> 0] = [i \in 0..0 |-> Step([zero \in {0} |-> 0], i)]
      OBVIOUS
    <3> QED
      BY <3>1
  <2>3. n \in Nat /\ n - 1 \in Nat /\ Has(n - 1)
    <3> HIDE DEF Has
    <3>1. n \in Nat /\ n - 1 \in Nat
      BY <2>1, <2>2
    <3>2. n - 1 \notin Bad
      BY <2>1, <3>1
    <3> QED
      BY <3>1, <3>2
  <2>4. PICK g : g = [i \in 0..(n - 1) |-> Step(g, i)]
    BY <2>3
  <2> DEFINE h == [i \in 0..n |-> IF i < n THEN g[i] ELSE Step(g, n)]
  <2>5. \A i \in 0..n : h[i] = Step(h, i)
    <3> SUFFICES ASSUME NEW i \in 0..n PROVE h[i] = Step(h, i)
      OBVIOUS
    <3>1. i # 0 => h[i - 1] = g[i - 1]
      BY <2>3
    <3>2. CASE i < n
      <4>1. i \in 0..(n - 1) /\ h[i] = g[i]
        BY <2>3, <3>2
      <4>2. g[i] = Step(g, i)
        BY <2>4, <4>1
      <4> QED
        BY <3>1, <4>1, <4>2
    <3>3. CASE i = n
      <4>1. h[i] = Step(g, i)
        BY <2>3, <3>3
      <4> QED
        BY <3>1, <4>1
    <3> QED
      BY <2>3, <3>2, <3>3
  <2>6. h = [i \in 0..n |-> Step(h, i)]
    BY <2>5
  <2> QED
    BY <2>1, <2>6
<1> QED
  BY <1>1 DEF FrameEnds

\* A scan visits these frames if each of them is read where it is, and there is no entry
\* behind the last.
LEMMA ScanIs ==
  ASSUME NEW bytes, Len(bytes) \in Nat,
         NEW frames \in Seq(Frame), Len(frames) <= Len(bytes),
         \A i \in 1..Len(frames) :
           /\ frames[i].index = i
           /\ ReadFrame(bytes, StartOf(frames, i), i)
                = [kind |-> "entry", claimed |-> frames[i].byteOffset - StartOf(frames, i),
                   payload |-> frames[i].payload],
         NEW last, last = ReadFrame(bytes, EndOf(frames), Len(frames) + 1),
         last.kind # "entry"
  PROVE  ScanJournal(bytes) =
           [frames |-> frames, size |-> EndOf(frames),
            error |-> last.kind # "eof" /\ ~TornTail(last, EndOf(frames), Len(bytes))]
<1> DEFINE end     == FrameEnds(bytes)
           n       == Len(frames)
           Read(i) == ReadFrame(bytes, end[i - 1], i)
           Stops(m) == (\A i \in 1..m : Read(i).kind = "entry") /\ Read(m + 1).kind # "entry"
           count   == CHOOSE m \in 0..Len(bytes) : Stops(m)
<1>1. /\ n \in Nat /\ n <= Len(bytes) /\ DOMAIN frames = 1..n
      /\ \A i \in 1..n : frames[i] \in Frame /\ frames[i].byteOffset \in Nat
                         /\ StartOf(frames, i) \in Nat
  <2>1. n \in Nat /\ n <= Len(bytes) /\ DOMAIN frames = 1..n
    OBVIOUS
  <2>2. \A i \in 1..n : frames[i] \in Frame
    BY <2>1
  <2>3. \A i \in 1..n : frames[i].byteOffset \in Nat
    BY <2>2 DEF Frame
  <2>4. \A i \in 1..n : i = 1 \/ i - 1 \in 1..n
    BY <2>1
  <2> QED
    BY <2>1, <2>2, <2>3, <2>4 DEF StartOf
<1>2. /\ end[0] = 0
      /\ \A i \in 1..Len(bytes) : end[i] = end[i - 1] + Read(i).claimed
  <2>1. end = [i \in 0..Len(bytes) |-> IF i = 0 THEN 0 ELSE end[i - 1] + Read(i).claimed]
    BY EndsUnfold, Zenon
  <2> HIDE DEF end, Read
  <2>2. \A i \in 0..Len(bytes) : end[i] = IF i = 0 THEN 0 ELSE end[i - 1] + Read(i).claimed
    BY <2>1, Zenon
  <2> QED
    BY <2>2
<1>3. \A i \in 1..n : end[i] = frames[i].byteOffset
  <2> DEFINE Bad == {i \in 1..n : end[i] # frames[i].byteOffset}
  <2> SUFFICES ASSUME Bad # {} PROVE FALSE
    OBVIOUS
  <2> HIDE DEF end
  <2>1. Bad \in SUBSET Nat
    BY <1>1
  <2>2. PICK i \in Bad : \A j \in Bad : i <= j
    BY <2>1, LeastNatural
  <2>3. i \in 1..n /\ i - 1 \notin Bad /\ i \in 1..Len(bytes)
    BY <1>1, <2>2
  <2>4. end[i - 1] = StartOf(frames, i)
    BY <1>1, <1>2, <2>3 DEF StartOf
  <2>5. end[i] = StartOf(frames, i) + (frames[i].byteOffset - StartOf(frames, i))
    BY <1>2, <2>3, <2>4
  <2> QED
    BY <1>1, <2>2, <2>3, <2>5
<1>4. /\ \A i \in 1..n : end[i - 1] = StartOf(frames, i)
      /\ end[n] = EndOf(frames)
  <2> HIDE DEF end
  <2> QED
    BY <1>1, <1>2, <1>3 DEF StartOf, EndOf
<1>5. /\ \A i \in 1..n : Read(i).kind = "entry" /\ Read(i).payload = frames[i].payload
      /\ Read(n + 1) = last
  <2> HIDE DEF end
  <2> QED
    BY <1>1, <1>4
<1>6. count = n
  <2> HIDE DEF Read
  <2>1. n \in 0..Len(bytes) /\ Stops(n)
    BY <1>1, <1>5
  <2>2. ASSUME NEW m \in 0..Len(bytes), Stops(m) PROVE m = n
    <3>1. m \in Nat
      OBVIOUS
    <3>2. ~(m < n)
      <4> SUFFICES ASSUME m < n PROVE FALSE
        OBVIOUS
      <4>1. m + 1 \in 1..n
        BY <1>1, <3>1
      <4>2. Read(m + 1).kind = "entry"
        BY <1>5, <4>1
      <4> QED
        BY <2>2, <4>2
    <3>3. ~(n < m)
      <4> SUFFICES ASSUME n < m PROVE FALSE
        OBVIOUS
      <4>1. n + 1 \in 1..m
        BY <1>1, <3>1
      <4>2. Read(n + 1).kind = "entry"
        BY <2>2, <4>1
      <4> QED
        BY <1>5, <4>2
    <3>4. n \in Nat
      BY <1>1
    <3> QED
      BY <3>1, <3>2, <3>3, <3>4
  <2> HIDE DEF Stops
  <2> QED
    BY <2>1, <2>2
<1>7. [i \in 1..count |-> [index |-> i, byteOffset |-> end[i], payload |-> Read(i).payload]]
        = frames
  <2> DEFINE made == [i \in 1..n |-> [index |-> i, byteOffset |-> end[i],
                                      payload |-> Read(i).payload]]
  <2> HIDE DEF end, Read, count
  <2>1. \A i \in 1..n : frames[i] = made[i]
    BY <1>1, <1>3, <1>5 DEF Frame
  <2>2. frames = [i \in 1..n |-> frames[i]] /\ made = [i \in 1..n |-> made[i]]
    BY <1>1
  <2>3. frames = made
    BY <2>1, <2>2
  <2> QED
    BY <1>6, <2>3
<1> DEFINE Made(frs, size, l) ==
             [frames |-> frs, size |-> size,
              error |-> l.kind # "eof" /\ ~TornTail(l, size, Len(bytes))]
<1>8. ScanJournal(bytes) =
        Made([i \in 1..count |-> [index |-> i, byteOffset |-> end[i], payload |-> Read(i).payload]],
             end[count], Read(count + 1))
  BY Zenon DEF ScanJournal
<1> HIDE DEF n, Made, end, Read, count
<1>9. ScanJournal(bytes) = Made(frames, EndOf(frames), last)
  BY <1>4, <1>5, <1>6, <1>7, <1>8
<1> QED
  BY <1>9 DEF Made

-----------------------------------------------------------------------------
\* Frames

\* The values of a concatenation.
LEMMA Concatenated ==
  ASSUME NEW S, NEW s \in Seq(S), NEW t \in Seq(S)
  PROVE  /\ s \o t \in Seq(S) /\ Len(s) \in Nat /\ Len(t) \in Nat
         /\ Len(s \o t) = Len(s) + Len(t)
         /\ \A k \in 1..Len(s) : (s \o t)[k] = s[k]
         /\ \A k \in 1..Len(t) : (s \o t)[Len(s) + k] = t[k]
OBVIOUS

\* A table over 1..n is a sequence of n values.
LEMMA TableIsSequence ==
  ASSUME NEW S, NEW n \in Nat, NEW s, s = [k \in 1..n |-> s[k]], \A k \in 1..n : s[k] \in S
  PROVE  s \in Seq(S) /\ Len(s) = n
<1>1. s \in [1..n -> S]
  OBVIOUS
<1> QED
  BY <1>1

\* A byte of an entry may be in a file, and a checksum may cover it.
LEMMA ByteTypes == Bytes \subseteq Covered /\ Bytes \subseteq FileByte
<1>1. \A b \in Bytes : /\ b = [value |-> b.value, of |-> <<>>]
                      /\ b.value \in 0..(Radix - 1) /\ b.value \in Nat
  BY ScanBounds DEF Bytes
<1>2. <<>> \in Seq(Covered)
  OBVIOUS
<1>3. \A n \in 0..(Radix - 1) : /\ [value |-> n, of |-> <<>>] \in Covered
                               /\ [value |-> n, of |-> <<>>] \in FileByte
  BY <1>2, ScanBounds DEF Covered, FileByte
<1> QED
  BY <1>1, <1>3

\* The bytes of a frame.
LEMMA FrameBytes ==
  ASSUME NEW payload \in Seq(Bytes), Len(payload) <= MaxPayload, NEW index \in Nat
  PROVE  LET frame == MakeFrame(payload, index)
             n     == Len(payload)
         IN  /\ frame \in Seq(FileByte) /\ Len(frame) = SizeOf(payload) /\ n \in Nat
             /\ frame[1] = Byte(n \div Radix) /\ frame[2] = Byte(n % Radix)
             /\ \A k \in 1..n : frame[k + 2] = payload[k]
             /\ frame[n + 3] = Stamp(payload, index) /\ frame[n + 4] = Stamp(payload, index)
<1> DEFINE n == Len(payload)
           stamp == Stamp(payload, index)
<1>1. n \in 0..MaxPayload /\ n \in Nat
  BY PrefixHoldsTheLimit
<1>2. Bytes \subseteq Covered /\ Bytes \subseteq FileByte
  BY ByteTypes
<1>3. Byte(n \div Radix) \in Bytes /\ Byte(n % Radix) \in Bytes
  BY <1>1, PrefixDecodes DEF Byte, Bytes
<1>4. /\ Prefix(payload) \in Seq(Bytes) /\ Len(Prefix(payload)) = 2
      /\ Prefix(payload)[1] = Byte(n \div Radix) /\ Prefix(payload)[2] = Byte(n % Radix)
  BY <1>3 DEF Prefix
<1>5. Checked(payload, index) \in Seq(Covered)
  <2>1. Byte(index) \in Covered
    BY DEF Byte, Covered
  <2>2. payload \in Seq(Covered) /\ Prefix(payload) \in Seq(Covered)
    BY <1>2, <1>4
  <2> QED
    BY <2>1, <2>2 DEF Checked
<1>6. stamp \in FileByte
  BY <1>5, ScanBounds DEF Stamp, FileByte
<1>7. Trailer(payload, index) = [k \in 1..2 |-> stamp]
  BY DEF Trailer, Stamp, Checked, TrailerSize
<1> HIDE DEF stamp
<1>8. /\ Trailer(payload, index) \in Seq(FileByte) /\ Len(Trailer(payload, index)) = 2
      /\ Trailer(payload, index)[1] = stamp /\ Trailer(payload, index)[2] = stamp
  BY <1>6, <1>7
<1>9. payload \in Seq(FileByte) /\ Prefix(payload) \in Seq(FileByte)
  BY <1>2, <1>4
<1> DEFINE head == Prefix(payload) \o payload
<1>10. /\ head \in Seq(FileByte) /\ Len(head) = n + 2
       /\ head[1] = Byte(n \div Radix) /\ head[2] = Byte(n % Radix)
       /\ \A k \in 1..n : head[k + 2] = payload[k]
  <2> HIDE DEF head
  <2>1. /\ head \in Seq(FileByte) /\ Len(head) = Len(Prefix(payload)) + n
        /\ \A k \in 1..Len(Prefix(payload)) : head[k] = Prefix(payload)[k]
        /\ \A k \in 1..n : head[Len(Prefix(payload)) + k] = payload[k]
    BY <1>9, Concatenated DEF head
  <2> HIDE DEF n
  <2>2. \A k \in 1..n : 2 + k = k + 2
    BY <1>1
  <2>3. 1 \in 1..2 /\ 2 \in 1..2
    OBVIOUS
  <2> QED
    BY <1>1, <1>4, <2>1, <2>2, <2>3
<1>11. MakeFrame(payload, index) = head \o Trailer(payload, index)
  BY DEF MakeFrame
<1> HIDE DEF head, n
<1> DEFINE frame == head \o Trailer(payload, index)
<1>12. /\ frame \in Seq(FileByte) /\ Len(frame) = n + 2 + 2
       /\ \A k \in 1..(n + 2) : frame[k] = head[k]
       /\ \A k \in 1..2 : frame[n + 2 + k] = stamp
  <2> HIDE DEF frame
  <2>1. /\ frame \in Seq(FileByte) /\ Len(frame) = Len(head) + Len(Trailer(payload, index))
        /\ \A k \in 1..Len(head) : frame[k] = head[k]
        /\ \A k \in 1..Len(Trailer(payload, index)) :
              frame[Len(head) + k] = Trailer(payload, index)[k]
    <3>1. head \in Seq(FileByte) /\ Trailer(payload, index) \in Seq(FileByte)
      BY <1>8, <1>10
    <3> QED
      BY <3>1, Concatenated DEF frame
  <2>2. \A k \in 1..2 : k = 1 \/ k = 2
    OBVIOUS
  <2> QED
    BY <1>8, <1>10, <2>1, <2>2
<1> HIDE DEF frame
<1>13. Len(frame) = n + 4 /\ n + 2 + 1 = n + 3 /\ n + 2 + 2 = n + 4
  BY <1>1, <1>12
<1>14. frame[n + 3] = stamp /\ frame[n + 4] = stamp
  <2>1. 1 \in 1..2 /\ 2 \in 1..2
    OBVIOUS
  <2> QED
    BY <1>12, <1>13, <2>1
<1>15. frame[1] = head[1] /\ frame[2] = head[2] /\ \A k \in 1..n : frame[k + 2] = head[k + 2]
  BY <1>1, <1>12
<1>16. n + 4 = SizeOf(payload)
  BY <1>1 DEF SizeOf, PrefixSize, TrailerSize, n
<1> QED
  BY <1>1, <1>10, <1>11, <1>12, <1>13, <1>14, <1>15, <1>16 DEF n, stamp, frame

\* What a prefix claims, and the bytes that would be the payload.
Length(bytes, offset) == bytes[offset + 1].value * Radix + bytes[offset + 2].value
PayloadAt(bytes, offset) == SubSeq(bytes, offset + 3, offset + 2 + Length(bytes, offset))

\* The length that two bytes of a file claim.
LEMMA LengthIsNatural ==
  ASSUME NEW bytes \in Seq(FileByte), NEW offset \in Nat, offset + 2 <= Len(bytes)
  PROVE  Length(bytes, offset) \in Nat
<1>1. bytes[offset + 1] \in FileByte /\ bytes[offset + 2] \in FileByte
  OBVIOUS
<1>2. bytes[offset + 1].value \in Nat /\ bytes[offset + 2].value \in Nat
  BY <1>1, ScanBounds DEF FileByte
<1>3. \A a, b, r \in Nat : a * r + b \in Nat
  OBVIOUS
<1> QED
  BY <1>2, <1>3, ScanBounds DEF Length

\* The bytes between a prefix and a trailer.
LEMMA PayloadIs ==
  ASSUME NEW bytes \in Seq(FileByte), NEW offset \in Nat, NEW n \in Nat,
         n = Length(bytes, offset), offset + n + 2 <= Len(bytes)
  PROVE  /\ PayloadAt(bytes, offset) = [l \in 1..n |-> bytes[offset + 2 + l]]
         /\ PayloadAt(bytes, offset) \in Seq(FileByte) /\ Len(PayloadAt(bytes, offset)) = n
<1> DEFINE found == PayloadAt(bytes, offset)
<1>1. found = SubSeq(bytes, offset + 3, offset + 2 + n)
  BY DEF PayloadAt
<1>2. SubSeq(bytes, offset + 3, offset + 2 + n) = [l \in 1..n |-> bytes[offset + 3 + l - 1]]
  <2>1. (offset + 2 + n) - (offset + 3) + 1 = n
    OBVIOUS
  <2> QED
    BY <2>1
<1>3. \A l \in 1..n : offset + 3 + l - 1 = offset + 2 + l /\ offset + 2 + l \in 1..Len(bytes)
  OBVIOUS
<1> HIDE DEF found
<1>4. found = [l \in 1..n |-> bytes[offset + 2 + l]]
  BY <1>1, <1>2, <1>3
<1>5. \A t \in 1..Len(bytes) : bytes[t] \in FileByte
  OBVIOUS
<1>6. found = [l \in 1..n |-> found[l]] /\ \A l \in 1..n : found[l] \in FileByte
  BY <1>3, <1>4, <1>5
<1>7. found \in Seq(FileByte) /\ Len(found) = n
  BY <1>6, TableIsSequence
<1> QED
  BY <1>4, <1>7 DEF found

\* What a frame is read as when there is not even a prefix.
LEMMA ReadsShort ==
  ASSUME NEW bytes \in Seq(FileByte), NEW offset \in Nat, NEW index \in Nat,
         offset <= Len(bytes), Len(bytes) < offset + 2
  PROVE  ReadFrame(bytes, offset, index).kind =
           IF offset = Len(bytes) THEN "eof" ELSE "truncated"
BY DEF ReadFrame, PrefixSize

\* What a frame is read as when there is a prefix.
LEMMA ReadsLong ==
  ASSUME NEW bytes \in Seq(FileByte), NEW offset \in Nat, NEW index \in Nat,
         offset + 2 <= Len(bytes)
  PROVE  LET frame == ReadFrame(bytes, offset, index)
             n     == Length(bytes, offset)
             stamp == Stamp(PayloadAt(bytes, offset), index)
         IN  /\ n \in Nat /\ frame.claimed = n + 4
             /\ n > MaxPayload => frame.kind = "corrupt"
             /\ n <= MaxPayload /\ offset + n + 4 > Len(bytes) => frame.kind = "truncated"
             /\ n <= MaxPayload /\ offset + n + 4 <= Len(bytes) =>
                  IF bytes[offset + n + 3] = stamp /\ bytes[offset + n + 4] = stamp
                  THEN frame = [kind |-> "entry", claimed |-> n + 4,
                                payload |-> PayloadAt(bytes, offset)]
                  ELSE frame.kind = IF mac THEN "mac" ELSE "corrupt"
<1> DEFINE frame == ReadFrame(bytes, offset, index)
           n     == Length(bytes, offset)
           pl    == PayloadAt(bytes, offset)
           stamp == Stamp(pl, index)
           left  == Len(bytes) - offset
           trailer == SubSeq(bytes, offset + n + 3, offset + n + 4)
           Returns(kind) == [kind |-> kind, claimed |-> n + 4, payload |-> <<>>]
<1>1. n \in Nat
  BY LengthIsNatural
<1>2. Trailer(pl, index) = [k \in 1..2 |-> stamp]
  BY DEF Trailer, Stamp, Checked, TrailerSize
<1>3. frame = IF n > MaxPayload THEN Returns("corrupt")
              ELSE IF n + 4 > left THEN Returns("truncated")
              ELSE IF trailer # Trailer(pl, index)
                   THEN Returns(IF mac THEN "mac" ELSE "corrupt")
              ELSE [kind |-> "entry", claimed |-> n + 4, payload |-> pl]
  <2>1. ~(left <= 0) /\ ~(left < 2)
    OBVIOUS
  <2>2. /\ 2 + n + 2 = n + 4
        /\ offset + 2 + 1 = offset + 3
        /\ offset + 2 + n = offset + 2 + n
        /\ offset + 2 + n + 1 = offset + n + 3
        /\ offset + (n + 4) = offset + n + 4
    BY <1>1
  <2>3. \A x : [Returns("entry") EXCEPT !.payload = x] = [kind |-> "entry", claimed |-> n + 4, payload |-> x]
    OBVIOUS
  <2> QED
    BY <2>1, <2>2, <2>3, Zenon DEF ReadFrame, PrefixSize, TrailerSize, PayloadAt, Length
<1>4. ASSUME offset + n + 4 <= Len(bytes)
      PROVE  trailer = Trailer(pl, index)
               <=> bytes[offset + n + 3] = stamp /\ bytes[offset + n + 4] = stamp
  <2> HIDE DEF n, stamp
  <2> DEFINE a == offset + n + 3
  <2>0. a \in 1..Len(bytes) /\ a + 1 \in 1..Len(bytes) /\ a + 1 = offset + n + 4
    BY <1>1, <1>4
  <2> HIDE DEF a
  <2>1. trailer = SubSeq(bytes, a, a + 1)
    BY <2>0 DEF a
  <2>2. /\ SubSeq(bytes, a, a + 1) = [k \in 1..2 |-> bytes[a + k - 1]]
    BY <2>0
  <2>3. bytes[a + 1 - 1] = bytes[a] /\ bytes[a + 2 - 1] = bytes[a + 1]
    BY <2>0
  <2>4. trailer = [k \in 1..2 |-> bytes[a + k - 1]]
    BY <2>1, <2>2
  <2> HIDE DEF trailer
  <2>5. /\ trailer = [k \in 1..2 |-> trailer[k]]
        /\ trailer[1] = bytes[offset + n + 3] /\ trailer[2] = bytes[offset + n + 4]
    <3>1. trailer[1] = bytes[a] /\ trailer[2] = bytes[a + 1]
      BY <2>3, <2>4
    <3>2. trailer = [k \in 1..2 |-> trailer[k]]
      BY <2>4
    <3> QED
      BY <2>0, <3>1, <3>2 DEF a
  <2> QED
    BY <1>2, <2>5
<1> HIDE DEF frame, n, stamp, pl, trailer
<1>5. frame.claimed = n + 4
  BY <1>3
<1>6. n > MaxPayload => frame.kind = "corrupt"
  BY <1>3
<1>7. n <= MaxPayload /\ offset + n + 4 > Len(bytes) => frame.kind = "truncated"
  BY <1>1, <1>3, PrefixHoldsTheLimit
<1>8. ASSUME n <= MaxPayload, offset + n + 4 <= Len(bytes)
      PROVE  IF bytes[offset + n + 3] = stamp /\ bytes[offset + n + 4] = stamp
             THEN frame = [kind |-> "entry", claimed |-> n + 4, payload |-> pl]
             ELSE frame.kind = IF mac THEN "mac" ELSE "corrupt"
  <2>1. ~(n > MaxPayload) /\ ~(n + 4 > left)
    BY <1>1, <1>8, PrefixHoldsTheLimit
  <2> QED
    BY <1>3, <1>4, <1>8, <2>1
<1> QED
  BY <1>1, <1>5, <1>6, <1>7, <1>8 DEF frame, n, stamp, pl

-----------------------------------------------------------------------------
\* Layouts

\* What is known of each frame of a layout, and of its end.
LEMMA LayoutFacts ==
  ASSUME NEW frames, IsLayout(frames)
  PROVE  /\ Len(frames) \in Nat /\ DOMAIN frames = 1..Len(frames)
         /\ EndOf(frames) \in Nat
         /\ frames = <<>> => EndOf(frames) = 0
         /\ frames # <<>> => /\ Len(frames) \in 1..Len(frames)
                             /\ EndOf(frames) = frames[Len(frames)].byteOffset
         /\ \A i \in 1..Len(frames) :
              /\ frames[i] \in Frame /\ frames[i].byteOffset \in Nat
              /\ IsPayload(frames[i].payload)
              /\ Len(frames[i].payload) \in Nat
              /\ SizeOf(frames[i].payload) = Len(frames[i].payload) + 4
              /\ StartOf(frames, i) \in Nat
              /\ i = 1 => StartOf(frames, i) = 0
              /\ i # 1 => /\ i - 1 \in 1..Len(frames)
                          /\ StartOf(frames, i) = frames[i - 1].byteOffset
              /\ frames[i].byteOffset = StartOf(frames, i) + Len(frames[i].payload) + 4
<1>1. frames \in Seq(Frame) /\ Len(frames) \in Nat /\ DOMAIN frames = 1..Len(frames)
  BY DEF IsLayout
<1>2. frames # <<>> => Len(frames) \in 1..Len(frames)
  BY <1>1
<1>3. \A i \in 1..Len(frames) : frames[i] \in Frame
  BY <1>1
<1>4. \A i \in 1..Len(frames) : frames[i].byteOffset \in Nat
  BY <1>3 DEF Frame
<1>5. \A i \in 1..Len(frames) : i # 1 => i - 1 \in 1..Len(frames)
  BY <1>1
<1>6. \A i \in 1..Len(frames) : StartOf(frames, i) \in Nat
  BY <1>4, <1>5 DEF StartOf
<1>7. EndOf(frames) \in Nat
  BY <1>2, <1>4 DEF EndOf
<1>8. \A i \in 1..Len(frames) :
        /\ IsPayload(frames[i].payload) /\ Len(frames[i].payload) \in Nat
        /\ frames[i].byteOffset = StartOf(frames, i) + SizeOf(frames[i].payload)
  <2>1. \A i \in 1..Len(frames) :
          /\ IsPayload(frames[i].payload)
          /\ frames[i].byteOffset = StartOf(frames, i) + SizeOf(frames[i].payload)
    BY <1>1 DEF IsLayout
  <2>2. \A p : IsPayload(p) => Len(p) \in Nat
    BY DEF IsPayload
  <2> QED
    BY <2>1, <2>2
<1>9. \A n \in Nat : 2 + n + 2 = n + 4
  OBVIOUS
<1>10. \A i \in 1..Len(frames) : SizeOf(frames[i].payload) = Len(frames[i].payload) + 4
  BY <1>8, <1>9 DEF SizeOf, PrefixSize, TrailerSize
<1>11. \A i \in 1..Len(frames) :
         frames[i].byteOffset = StartOf(frames, i) + Len(frames[i].payload) + 4
  BY <1>6, <1>8, <1>10
<1> QED
  BY <1>1, <1>2, <1>3, <1>4, <1>5, <1>6, <1>7, <1>8, <1>10, <1>11 DEF StartOf, EndOf

\* Frames do not overlap.
LEMMA LayoutOrder ==
  ASSUME NEW frames, IsLayout(frames)
  PROVE  /\ \A i, j \in 1..Len(frames) : i < j => frames[i].byteOffset <= StartOf(frames, j)
         /\ \A i \in 1..Len(frames) : frames[i].byteOffset <= EndOf(frames)
         /\ Len(frames) <= EndOf(frames)
<1> DEFINE n == Len(frames)
           at(i) == frames[i].byteOffset
           from(i) == StartOf(frames, i)
<1>1. /\ n \in Nat /\ EndOf(frames) \in Nat
      /\ frames = <<>> => EndOf(frames) = 0 /\ n = 0
      /\ frames # <<>> => n \in 1..n /\ EndOf(frames) = at(n)
      /\ \A i \in 1..n : /\ at(i) \in Nat /\ from(i) \in Nat /\ from(i) < at(i)
                         /\ i = 1 => from(i) = 0
                         /\ i # 1 => i - 1 \in 1..n /\ from(i) = at(i - 1)
  <2>1. \A a, b, c \in Nat : a = b + c + 4 => b < a
    OBVIOUS
  <2> QED
    BY <2>1, LayoutFacts
<1> HIDE DEF n, at, from
<1>2. ASSUME NEW i \in 1..n PROVE \A j \in 1..n : i < j => at(i) <= from(j)
  <2> DEFINE Bad == {j \in 1..n : i < j /\ ~(at(i) <= from(j))}
  <2> SUFFICES ASSUME Bad # {} PROVE FALSE
    OBVIOUS
  <2>1. Bad \in SUBSET Nat
    BY <1>1
  <2>2. PICK j \in Bad : \A k \in Bad : j <= k
    BY <2>1, LeastNatural
  <2>3. j \in 1..n /\ i < j /\ j # 1 /\ j - 1 \in 1..n /\ from(j) = at(j - 1)
    BY <1>1, <2>2
  <2>4. j - 1 \notin Bad
    BY <1>1, <2>2, <2>3
  <2>5. i = j - 1 \/ at(i) <= from(j - 1)
    BY <1>1, <2>3, <2>4
  <2>6. /\ at(i) \in Nat /\ at(j - 1) \in Nat /\ from(j - 1) \in Nat
        /\ from(j - 1) < at(j - 1)
    BY <1>1, <2>3
  <2>7. at(i) <= at(j - 1)
    BY <2>5, <2>6
  <2>8. ~(at(i) <= from(j))
    BY <2>2
  <2> QED
    BY <2>3, <2>7, <2>8
<1>3. \A i \in 1..n : at(i) <= EndOf(frames)
  <2> SUFFICES ASSUME NEW i \in 1..n PROVE at(i) <= EndOf(frames)
    OBVIOUS
  <2>1. frames # <<>>
    BY <1>1
  <2>2. n \in 1..n /\ EndOf(frames) = at(n)
    BY <1>1, <2>1
  <2>3. i < n => at(i) <= from(n)
    BY <1>2, <2>2
  <2> QED
    BY <1>1, <2>2, <2>3
<1>4. \A i \in 1..n : i <= at(i)
  <2> DEFINE Bad == {i \in 1..n : ~(i <= at(i))}
  <2> SUFFICES ASSUME Bad # {} PROVE FALSE
    OBVIOUS
  <2>1. Bad \in SUBSET Nat
    BY <1>1
  <2>2. PICK i \in Bad : \A k \in Bad : i <= k
    BY <2>1, LeastNatural
  <2>3. i \in 1..n /\ i # 1
    BY <1>1, <2>2
  <2>4. i - 1 \in 1..n /\ i - 1 \notin Bad
    BY <1>1, <2>2, <2>3
  <2> QED
    BY <1>1, <2>2, <2>3, <2>4
<1>5. n <= EndOf(frames)
  <2>1. frames = <<>> \/ n <= at(n)
    BY <1>1, <1>4
  <2> QED
    BY <1>1, <2>1
<1> QED
  BY <1>2, <1>3, <1>5 DEF n, at, from

\* A byte in front of the end is in a frame, and in one only.
LEMMA LayoutCovers ==
  ASSUME NEW frames, IsLayout(frames), NEW b \in 1..EndOf(frames)
  PROVE  \E i \in 1..Len(frames) : \E k \in 1..SizeOf(frames[i].payload) :
           b = StartOf(frames, i) + k
<1> DEFINE Behind == {i \in 1..Len(frames) : b <= frames[i].byteOffset}
<1>1. Behind \in SUBSET Nat
  BY LayoutFacts
<1>2. Behind # {}
  <2>1. frames # <<>>
    BY LayoutFacts
  <2>2. Len(frames) \in Behind
    BY <2>1, LayoutFacts
  <2> QED
    BY <2>2
<1>3. PICK i \in Behind : \A j \in Behind : i <= j
  BY <1>1, <1>2, LeastNatural
<1>4. i \in 1..Len(frames) /\ b <= frames[i].byteOffset
  BY <1>3
<1>5. StartOf(frames, i) < b
  <2>1. CASE i = 1
    BY <1>4, <2>1, LayoutFacts
  <2>2. CASE i # 1
    <3>1. i - 1 \in 1..Len(frames) /\ StartOf(frames, i) = frames[i - 1].byteOffset
      BY <1>4, <2>2, LayoutFacts
    <3>2. i - 1 \notin Behind
      BY <1>3, <1>4, LayoutFacts
    <3>3. frames[i - 1].byteOffset \in Nat
      BY <3>1, LayoutFacts
    <3> QED
      BY <3>1, <3>2, <3>3, LayoutFacts
  <2> QED
    BY <2>1, <2>2
<1>6. /\ StartOf(frames, i) \in Nat /\ SizeOf(frames[i].payload) \in Nat /\ b \in Nat
      /\ frames[i].byteOffset = StartOf(frames, i) + SizeOf(frames[i].payload)
  BY <1>4, LayoutFacts
<1>7. b - StartOf(frames, i) \in 1..SizeOf(frames[i].payload)
      /\ b = StartOf(frames, i) + (b - StartOf(frames, i))
  BY <1>4, <1>5, <1>6
<1> QED
  BY <1>4, <1>7

-----------------------------------------------------------------------------
\* What is read at a layout

\* A frame that is in the file as it was made is read as its entry.
LEMMA ReadsIntact ==
  ASSUME NEW bytes \in Seq(FileByte), NEW offset \in Nat, NEW index \in Nat,
         NEW payload, IsPayload(payload), offset + SizeOf(payload) <= Len(bytes),
         \A k \in 1..SizeOf(payload) : bytes[offset + k] = MakeFrame(payload, index)[k]
  PROVE  ReadFrame(bytes, offset, index) =
           [kind |-> "entry", claimed |-> SizeOf(payload), payload |-> payload]
<1> DEFINE n == Len(payload)
           frame == MakeFrame(payload, index)
           stamp == Stamp(payload, index)
<1>1. /\ payload \in Seq(Bytes) /\ n \in 0..MaxPayload /\ n \in Nat
      /\ SizeOf(payload) = n + 4
  <2>1. payload \in Seq(Bytes) /\ n <= MaxPayload
    BY DEF IsPayload
  <2>2. n \in Nat /\ 2 + n + 2 = n + 4
    BY <2>1
  <2> QED
    BY <2>1, <2>2, PrefixHoldsTheLimit DEF SizeOf, PrefixSize, TrailerSize
<1>2. /\ frame[1] = Byte(n \div Radix) /\ frame[2] = Byte(n % Radix)
      /\ \A k \in 1..n : frame[k + 2] = payload[k]
      /\ frame[n + 3] = stamp /\ frame[n + 4] = stamp
  BY <1>1, FrameBytes
<1> HIDE DEF n, frame, stamp
<1>3. /\ bytes[offset + 1] = frame[1] /\ bytes[offset + 2] = frame[2]
      /\ bytes[offset + n + 3] = frame[n + 3] /\ bytes[offset + n + 4] = frame[n + 4]
      /\ \A k \in 1..n : bytes[offset + 2 + k] = frame[k + 2]
  <2>1. \A k \in 1..(n + 4) : bytes[offset + k] = frame[k]
    BY <1>1 DEF frame
  <2>2. /\ 1 \in 1..(n + 4) /\ 2 \in 1..(n + 4) /\ n + 3 \in 1..(n + 4) /\ n + 4 \in 1..(n + 4)
        /\ offset + (n + 3) = offset + n + 3 /\ offset + (n + 4) = offset + n + 4
    BY <1>1
  <2>3. \A k \in 1..n : k + 2 \in 1..(n + 4) /\ offset + (k + 2) = offset + 2 + k
    BY <1>1
  <2> QED
    BY <2>1, <2>2, <2>3
<1>4. Length(bytes, offset) = n
  <2>1. bytes[offset + 1].value = n \div Radix /\ bytes[offset + 2].value = n % Radix
    BY <1>2, <1>3 DEF Byte
  <2> QED
    BY <1>1, <2>1, PrefixDecodes DEF Length
<1>5. offset + n + 4 <= Len(bytes) /\ offset + 2 <= Len(bytes) /\ n <= MaxPayload
  BY <1>1, PrefixHoldsTheLimit
<1>6. PayloadAt(bytes, offset) = payload
  <2>1. PayloadAt(bytes, offset) = [k \in 1..n |-> bytes[offset + 2 + k]]
    <3>1. offset + n + 2 <= Len(bytes)
      BY <1>1, <1>5
    <3> QED
      BY <1>1, <1>4, <3>1, PayloadIs
  <2>2. payload = [k \in 1..n |-> payload[k]]
    BY <1>1 DEF n
  <2>3. \A k \in 1..n : bytes[offset + 2 + k] = payload[k]
    BY <1>2, <1>3
  <2> QED
    BY <2>1, <2>2, <2>3
<1>7. bytes[offset + n + 3] = stamp /\ bytes[offset + n + 4] = stamp
  BY <1>2, <1>3
<1>8. ReadFrame(bytes, offset, index) = [kind |-> "entry", claimed |-> n + 4, payload |-> payload]
  BY <1>4, <1>5, <1>6, <1>7, ReadsLong DEF stamp
<1> QED
  BY <1>1, <1>8

\* A part of a frame is the end of the file, or truncated.
LEMMA ReadsTornFrame ==
  ASSUME NEW bytes \in Seq(FileByte), NEW offset \in Nat, NEW index \in Nat,
         NEW payload, IsPayload(payload),
         offset <= Len(bytes), Len(bytes) < offset + SizeOf(payload),
         \A k \in 1..(Len(bytes) - offset) : bytes[offset + k] = MakeFrame(payload, index)[k]
  PROVE  ReadFrame(bytes, offset, index).kind \in {"eof", "truncated"}
<1> DEFINE n == Len(payload)
           frame == MakeFrame(payload, index)
<1>1. /\ payload \in Seq(Bytes) /\ n \in 0..MaxPayload /\ n \in Nat /\ n <= MaxPayload
      /\ SizeOf(payload) = n + 4
  <2>1. payload \in Seq(Bytes) /\ n <= MaxPayload
    BY DEF IsPayload
  <2>2. n \in Nat /\ 2 + n + 2 = n + 4
    BY <2>1
  <2> QED
    BY <2>1, <2>2, PrefixHoldsTheLimit DEF SizeOf, PrefixSize, TrailerSize
<1>2. CASE Len(bytes) < offset + 2
  BY <1>2, ReadsShort
<1>3. CASE ~(Len(bytes) < offset + 2)
  <2>1. frame[1] = Byte(n \div Radix) /\ frame[2] = Byte(n % Radix)
    BY <1>1, FrameBytes
  <2> HIDE DEF n, frame
  <2>2. bytes[offset + 1] = frame[1] /\ bytes[offset + 2] = frame[2]
    <3>1. 1 \in 1..(Len(bytes) - offset) /\ 2 \in 1..(Len(bytes) - offset)
      BY <1>3
    <3> QED
      BY <3>1 DEF frame
  <2>3. bytes[offset + 1].value = n \div Radix /\ bytes[offset + 2].value = n % Radix
    BY <2>1, <2>2 DEF Byte
  <2>4. Length(bytes, offset) = n
    BY <1>1, <2>3, PrefixDecodes DEF Length
  <2>5. offset + 2 <= Len(bytes) /\ offset + n + 4 > Len(bytes)
    BY <1>1, <1>3
  <2> QED
    BY <1>1, <2>4, <2>5, ReadsLong
<1> QED
  BY <1>2, <1>3

\* Space that was not written is an empty frame, unless the file ends in it, or it
\* fails the MAC.
LEMMA ReadsSpace ==
  ASSUME NEW bytes \in Seq(FileByte), NEW offset \in Nat, NEW index \in Nat,
         offset <= Len(bytes),
         \A k \in 1..(Len(bytes) - offset) : bytes[offset + k] = Byte(0)
  PROVE  ReadFrame(bytes, offset, index).kind \in
           IF Len(bytes) < offset + 4 THEN {"eof", "truncated"}
           ELSE IF mac THEN {"mac"} ELSE {"entry"}
<1>1. CASE Len(bytes) < offset + 2
  BY <1>1, ReadsShort
<1>2. CASE ~(Len(bytes) < offset + 2)
  <2>1. offset + 2 <= Len(bytes) /\ Len(bytes) \in Nat
    BY <1>2
  <2>2. bytes[offset + 1] = Byte(0) /\ bytes[offset + 2] = Byte(0)
    <3>1. 1 \in 1..(Len(bytes) - offset) /\ 2 \in 1..(Len(bytes) - offset)
      BY <2>1
    <3> QED
      BY <3>1
  <2>3. Length(bytes, offset) = 0
    <3>1. bytes[offset + 1].value = 0 /\ bytes[offset + 2].value = 0
      BY <2>2 DEF Byte
    <3>2. 0 * Radix + 0 = 0
      BY ScanBounds
    <3> QED
      BY <3>1, <3>2 DEF Length
  <2>4. 0 <= MaxPayload
    BY PrefixHoldsTheLimit
  <2>5. CASE Len(bytes) < offset + 4
    <3>1. offset + 0 + 4 > Len(bytes)
      BY <2>1, <2>5
    <3>2. ReadFrame(bytes, offset, index).kind = "truncated"
      BY <2>1, <2>3, <2>4, <3>1, ReadsLong
    <3> QED
      BY <2>5, <3>2
  <2>6. CASE ~(Len(bytes) < offset + 4)
    <3> DEFINE stamp == Stamp(PayloadAt(bytes, offset), index)
    <3>1. PayloadAt(bytes, offset) = <<>>
      <4>1. PayloadAt(bytes, offset) = SubSeq(bytes, offset + 3, offset + 2 + 0)
        BY <2>3 DEF PayloadAt
      <4>2. SubSeq(bytes, offset + 3, offset + 2 + 0) = <<>>
        BY <2>1
      <4> QED
        BY <4>1, <4>2
    <3>2. mac => stamp # Byte(0)
      <4> SUFFICES ASSUME mac PROVE stamp.of # <<>>
        BY DEF Byte
      <4>1. stamp.of = (<<Byte(index)>> \o <<Byte(Len(<<>>) \div Radix), Byte(Len(<<>>) % Radix)>>) \o <<>>
        BY <3>1 DEF Stamp, Checked, Prefix
      <4>2. \A a, b, c : (<<a>> \o <<b, c>>) \o <<>> # <<>>
        OBVIOUS
      <4> HIDE DEF stamp
      <4> QED
        BY <4>1, <4>2, Zenon
    <3>3. ~mac => stamp = Byte(0)
      <4> SUFFICES ASSUME ~mac PROVE stamp = Byte(0)
        OBVIOUS
      <4>1. <<>> \o <<>> = <<>>
        OBVIOUS
      <4> QED
        BY <3>1, <4>1 DEF Stamp, Checked, Byte
    <3>4. bytes[offset + 0 + 3] = Byte(0) /\ bytes[offset + 0 + 4] = Byte(0)
      <4>1. 3 \in 1..(Len(bytes) - offset) /\ 4 \in 1..(Len(bytes) - offset)
            /\ offset + 0 + 3 = offset + 3 /\ offset + 0 + 4 = offset + 4
        BY <2>1, <2>6
      <4> QED
        BY <4>1
    <3>5. offset + 0 + 4 <= Len(bytes)
      BY <2>1, <2>6
    <3> HIDE DEF stamp
    <3>6. ReadFrame(bytes, offset, index).kind = IF mac THEN "mac" ELSE "entry"
      <4>1. IF bytes[offset + 0 + 3] = stamp /\ bytes[offset + 0 + 4] = stamp
            THEN ReadFrame(bytes, offset, index) = [kind |-> "entry", claimed |-> 0 + 4,
                                                    payload |-> PayloadAt(bytes, offset)]
            ELSE ReadFrame(bytes, offset, index).kind = IF mac THEN "mac" ELSE "corrupt"
        BY <2>1, <2>3, <2>4, <3>5, ReadsLong DEF stamp
      <4>2. CASE mac
        BY <3>2, <3>4, <4>1, <4>2
      <4>3. CASE ~mac
        BY <3>3, <3>4, <4>1, <4>3
      <4> QED
        BY <4>2, <4>3
    <3> QED
      BY <2>6, <3>6
  <2> QED
    BY <2>5, <2>6
<1> QED
  BY <1>1, <1>2

-----------------------------------------------------------------------------
\* Damage

\* The bytes that a MAC covers in front of the payload.
Ahead == IF mac THEN 3 ELSE 0

\* A checksum is over as many bytes as the payload has, and those of a MAC, the payload
\* last.
LEMMA CheckedBytes ==
  ASSUME NEW payload \in Seq(FileByte), NEW index \in Nat
  PROVE  /\ Ahead \in Nat /\ Len(payload) \in Nat
         /\ Len(Checked(payload, index)) = Ahead + Len(payload)
         /\ \A k \in 1..Len(payload) : Checked(payload, index)[Ahead + k] = payload[k]
<1> DEFINE b1 == Byte(index)
           b2 == Byte(Len(payload) \div Radix)
           b3 == Byte(Len(payload) % Radix)
           S  == FileByte \cup {b1, b2, b3}
           ahead == IF mac THEN <<b1>> \o <<b2, b3>> ELSE <<>>
<1>1. Checked(payload, index) = ahead \o payload
  BY DEF Checked, Prefix
<1> HIDE DEF b1, b2, b3
<1>2. b1 \in S /\ b2 \in S /\ b3 \in S /\ payload \in Seq(S)
  OBVIOUS
<1> HIDE DEF S
<1>3. ahead \in Seq(S) /\ Len(ahead) = Ahead
  <2>1. /\ <<b1>> \in Seq(S) /\ Len(<<b1>>) = 1
        /\ <<b2, b3>> \in Seq(S) /\ Len(<<b2, b3>>) = 2
        /\ <<>> \in Seq(S) /\ Len(<<>>) = 0
    BY <1>2
  <2>2. <<b1>> \o <<b2, b3>> \in Seq(S) /\ Len(<<b1>> \o <<b2, b3>>) = 1 + 2
    BY <2>1, Concatenated
  <2> QED
    BY <2>1, <2>2 DEF Ahead
<1> HIDE DEF ahead
<1>4. Ahead \in Nat
  BY DEF Ahead
<1>5. /\ Len(payload) \in Nat /\ Len(ahead \o payload) = Len(ahead) + Len(payload)
      /\ \A k \in 1..Len(payload) : (ahead \o payload)[Len(ahead) + k] = payload[k]
  <2>1. payload \in Seq(S) /\ ahead \in Seq(S)
    BY <1>2, <1>3
  <2>2. ASSUME NEW s \in Seq(S), NEW t \in Seq(S)
        PROVE  /\ Len(t) \in Nat
               /\ Len(s \o t) = Len(s) + Len(t)
               /\ \A k \in 1..Len(t) : (s \o t)[Len(s) + k] = t[k]
    BY Concatenated
  <2> QED
    BY <2>1, <2>2, Zenon
<1> QED
  BY <1>1, <1>3, <1>4, <1>5

\* The bytes of a frame that are checksums are the two of its trailer.
LEMMA StampsAreTrailers ==
  ASSUME NEW payload, IsPayload(payload), NEW index \in Nat,
         NEW k \in 1..SizeOf(payload)
  PROVE  LET byte == MakeFrame(payload, index)[k]
         IN  \/ byte.of = <<>>
             \/ /\ Len(byte.of) = Ahead + Len(payload)
                /\ k = Len(payload) + 3 \/ k = Len(payload) + 4
<1> DEFINE n == Len(payload)
           byte == MakeFrame(payload, index)[k]
<1>1. /\ payload \in Seq(Bytes) /\ payload \in Seq(FileByte) /\ n <= MaxPayload /\ n \in Nat
      /\ SizeOf(payload) = n + 4
  <2>1. payload \in Seq(Bytes) /\ n <= MaxPayload
    BY DEF IsPayload
  <2>2. n \in Nat /\ 2 + n + 2 = n + 4
    BY <2>1
  <2>3. payload \in Seq(FileByte)
    BY <2>1, ByteTypes
  <2> QED
    BY <2>1, <2>2, <2>3 DEF SizeOf, PrefixSize, TrailerSize
<1>2. CASE k = 1 \/ k = 2
  <2>1. byte = Byte(n \div Radix) \/ byte = Byte(n % Radix)
    BY <1>1, <1>2, FrameBytes
  <2> QED
    BY <2>1 DEF Byte
<1>3. CASE k \in 3..(n + 2)
  <2>1. k - 2 \in 1..n /\ k - 2 + 2 = k
    BY <1>1, <1>3
  <2>2. byte = payload[k - 2]
    BY <1>1, <2>1, FrameBytes
  <2>3. payload[k - 2] \in Bytes
    BY <1>1, <2>1
  <2> QED
    BY <2>2, <2>3 DEF Bytes
<1>4. CASE k = n + 3 \/ k = n + 4
  <2>1. byte = Stamp(payload, index)
    BY <1>1, <1>4, FrameBytes
  <2>2. byte.of = Checked(payload, index)
    BY <2>1 DEF Stamp
  <2> QED
    BY <1>1, <1>4, <2>2, CheckedBytes
<1>5. k = 1 \/ k = 2 \/ k \in 3..(n + 2) \/ k = n + 3 \/ k = n + 4
  BY <1>1
<1> QED
  BY <1>2, <1>3, <1>4, <1>5

\* Where the checksums of a file are: at the end of a frame of the layout, or of the one
\* behind it.
LEMMA StampsOfFile ==
  ASSUME TypeOK, NEW frames, LayoutInv(frames), NEW t \in 1..Len(file), t # damaged,
         file[t].of # <<>>
  PROVE  \E j \in 1..(Len(frames) + 1), payload \in Seq(Bytes) :
           LET start == IF j = Len(frames) + 1 THEN EndOf(frames) ELSE StartOf(frames, j)
           IN  /\ Len(file[t].of) = Ahead + Len(payload)
               /\ t = start + Len(payload) + 3 \/ t = start + Len(payload) + 4
               /\ j # Len(frames) + 1 => payload = frames[j].payload
<1>1. /\ IsLayout(frames) /\ Len(frames) \in Nat /\ EndOf(frames) \in Nat
      /\ file \in Seq(FileByte) /\ Len(file) \in Nat
  BY LayoutFacts DEF LayoutInv, TypeOK, FileByte
<1>2. CASE t <= EndOf(frames)
  <2>1. PICK j \in 1..Len(frames) :
          \E k \in 1..SizeOf(frames[j].payload) : t = StartOf(frames, j) + k
    BY <1>1, <1>2, LayoutCovers
  <2>2. PICK k \in 1..SizeOf(frames[j].payload) : t = StartOf(frames, j) + k
    BY <2>1
  <2>3. /\ IsPayload(frames[j].payload) /\ StartOf(frames, j) \in Nat
        /\ Len(frames[j].payload) \in Nat
        /\ j \in Nat /\ j \in DOMAIN frames /\ j \in 1..(Len(frames) + 1) /\ j # Len(frames) + 1
    BY <1>1, <2>1, LayoutFacts
  <2>4. file[t] = MakeFrame(frames[j].payload, j)[k]
    BY <2>2, <2>3 DEF LayoutInv, HoldsFrames
  <2>5. /\ Len(file[t].of) = Ahead + Len(frames[j].payload)
        /\ k = Len(frames[j].payload) + 3 \/ k = Len(frames[j].payload) + 4
    BY <2>2, <2>3, <2>4, StampsAreTrailers
  <2>6. t = StartOf(frames, j) + Len(frames[j].payload) + 3
          \/ t = StartOf(frames, j) + Len(frames[j].payload) + 4
    <3>1. \A a, b \in Nat : a + (b + 3) = a + b + 3 /\ a + (b + 4) = a + b + 4
      OBVIOUS
    <3> QED
      BY <2>2, <2>3, <2>5, <3>1
  <2>7. frames[j].payload \in Seq(Bytes)
    BY <2>3 DEF IsPayload
  <2> QED
    BY <2>3, <2>5, <2>6, <2>7
<1>3. CASE ~(t <= EndOf(frames))
  <2>1. /\ EndOf(frames) <= Len(file) /\ EndOf(frames) # Len(file)
        /\ t - EndOf(frames) \in 1..(Len(file) - EndOf(frames))
        /\ EndOf(frames) + (t - EndOf(frames)) = t
    BY <1>1, <1>3 DEF LayoutInv, HoldsFrames
  <2>2. ~TornSpace(frames)
    BY <2>1 DEF TornSpace, Byte
  <2>3. TornFrame(frames)
    BY <2>1, <2>2 DEF LayoutInv, TailInv
  <2>4. PICK payload \in Seq(Bytes) :
          /\ IsPayload(payload) /\ Len(file) < EndOf(frames) + SizeOf(payload)
          /\ \A k \in 1..(Len(file) - EndOf(frames)) :
               file[EndOf(frames) + k] = MakeFrame(payload, Len(frames) + 1)[k]
    BY <2>3 DEF TornFrame
  <2> DEFINE k == t - EndOf(frames)
  <2>5. Len(payload) \in Nat /\ SizeOf(payload) \in Nat
    <3>1. Len(payload) \in Nat /\ 2 + Len(payload) + 2 \in Nat
      OBVIOUS
    <3> QED
      BY <3>1 DEF SizeOf, PrefixSize, TrailerSize
  <2>6. k \in 1..SizeOf(payload) /\ file[t] = MakeFrame(payload, Len(frames) + 1)[k]
    <3>1. file[t] = MakeFrame(payload, Len(frames) + 1)[k]
      BY <2>1, <2>4
    <3> QED
      BY <1>1, <2>1, <2>4, <2>5, <3>1
  <2>7. /\ Len(file[t].of) = Ahead + Len(payload)
        /\ k = Len(payload) + 3 \/ k = Len(payload) + 4
    <3>1. Len(frames) + 1 \in Nat
      BY <1>1
    <3> HIDE DEF k
    <3> QED
      BY <2>4, <2>6, <3>1, StampsAreTrailers
  <2>8. t = EndOf(frames) + Len(payload) + 3 \/ t = EndOf(frames) + Len(payload) + 4
    BY <1>1, <2>5, <2>7
  <2>9. Len(frames) + 1 \in 1..(Len(frames) + 1)
    BY <1>1
  <2> QED
    BY <2>7, <2>8, <2>9
<1> QED
  BY <1>2, <1>3

\* What is known of the frame that is damaged.
LEMMA DamagedFrame ==
  ASSUME TypeOK, NEW frames, LayoutInv(frames), NEW i \in 1..Len(frames),
         NEW k \in 1..SizeOf(frames[i].payload), damaged = StartOf(frames, i) + k,
         file[damaged] # MakeFrame(frames[i].payload, i)[k]
  PROVE  LET start   == StartOf(frames, i)
             payload == frames[i].payload
             n       == Len(payload)
         IN  /\ file \in Seq(FileByte) /\ Len(file) \in Nat /\ start \in Nat /\ k \in Nat
             /\ i \in Nat /\ n \in Nat /\ n <= MaxPayload /\ SizeOf(payload) = n + 4
             /\ IsPayload(payload) /\ payload \in Seq(Bytes)
             /\ frames[i].byteOffset = start + n + 4
             /\ start + n + 4 <= Len(file)
             /\ file[damaged] \in Bytes
             /\ \A l \in 1..(n + 4) : l # k => file[start + l] = MakeFrame(payload, i)[l]
<1> DEFINE start   == StartOf(frames, i)
           payload == frames[i].payload
           n       == Len(payload)
<1>1. /\ IsLayout(frames) /\ EndOf(frames) <= Len(file) /\ file \in Seq(FileByte)
      /\ Len(file) \in Nat
  BY DEF LayoutInv, HoldsFrames, TypeOK, FileByte
<1>2. /\ start \in Nat /\ i \in Nat /\ n \in Nat /\ SizeOf(payload) = n + 4
      /\ IsPayload(payload) /\ frames[i].byteOffset = start + n + 4
      /\ EndOf(frames) \in Nat /\ frames[i].byteOffset <= EndOf(frames) /\ i \in DOMAIN frames
  BY <1>1, LayoutFacts, LayoutOrder
<1>3. payload \in Seq(Bytes) /\ n <= MaxPayload
  BY <1>2 DEF IsPayload
<1>4. start + n + 4 <= Len(file)
  BY <1>1, <1>2
<1>5. \A l \in 1..SizeOf(payload) :
        start + l # damaged => file[start + l] = MakeFrame(payload, i)[l]
  BY <1>2 DEF LayoutInv, HoldsFrames
<1>6. \A l \in 1..(n + 4) : l # k => start + l # damaged
  BY <1>2
<1>7. k \in Nat /\ damaged # 0
  BY <1>2
<1>8. file[damaged] \in Bytes
  BY <1>7 DEF LayoutInv, DamageInv
<1>9. \A l \in 1..(n + 4) : l # k => file[start + l] = MakeFrame(payload, i)[l]
  BY <1>2, <1>5, <1>6
<1> QED
  BY <1>1, <1>2, <1>3, <1>4, <1>7, <1>8, <1>9

\* A change of a payload or a trailer leaves a frame of its length, which is no entry.
LEMMA ReadsDamagedBody ==
  ASSUME TypeOK, NEW frames, LayoutInv(frames), NEW i \in 1..Len(frames),
         NEW k \in 1..SizeOf(frames[i].payload), damaged = StartOf(frames, i) + k,
         file[damaged] # MakeFrame(frames[i].payload, i)[k], k > 2
  PROVE  LET frame == ReadFrame(file, StartOf(frames, i), i)
         IN  /\ frame.kind = IF mac THEN "mac" ELSE "corrupt"
             /\ frame.claimed = SizeOf(frames[i].payload)
<1> DEFINE start   == StartOf(frames, i)
           payload == frames[i].payload
           n       == Len(payload)
           made    == MakeFrame(payload, i)
           stamp   == Stamp(payload, i)
           found   == PayloadAt(file, start)
<1>1. /\ file \in Seq(FileByte) /\ Len(file) \in Nat /\ start \in Nat /\ k \in Nat
      /\ i \in Nat /\ n \in Nat /\ n <= MaxPayload /\ SizeOf(payload) = n + 4
      /\ IsPayload(payload) /\ payload \in Seq(Bytes)
      /\ start + n + 4 <= Len(file)
      /\ \A l \in 1..(n + 4) : l # k => file[start + l] = made[l]
  BY DamagedFrame
<1>2. /\ made[1] = Byte(n \div Radix) /\ made[2] = Byte(n % Radix)
      /\ \A l \in 1..n : made[l + 2] = payload[l]
      /\ made[n + 3] = stamp /\ made[n + 4] = stamp
  BY <1>1, FrameBytes
<1>3. file[start + k] # made[k] /\ k \in 1..(n + 4) /\ n \in 0..MaxPayload
  BY <1>1, PrefixHoldsTheLimit
<1> HIDE DEF start, payload, n, made, stamp
<1>4. Length(file, start) = n
  <2>1. 1 \in 1..(n + 4) /\ 2 \in 1..(n + 4) /\ 1 # k /\ 2 # k
    BY <1>1
  <2>2. file[start + 1] = made[1] /\ file[start + 2] = made[2]
    BY <1>1, <2>1
  <2>3. file[start + 1].value = n \div Radix /\ file[start + 2].value = n % Radix
    BY <1>2, <2>2 DEF Byte
  <2> QED
    BY <1>3, <2>3, PrefixDecodes DEF Length
<1>5. start + 2 <= Len(file)
  BY <1>1
<1>6. /\ found = [l \in 1..n |-> file[start + 2 + l]]
      /\ found \in Seq(FileByte) /\ Len(found) = n
  <2>1. start + n + 2 <= Len(file)
    BY <1>1
  <2> QED
    BY <1>1, <1>4, <2>1, PayloadIs
<1> HIDE DEF found
<1>7. ~(file[start + n + 3] = Stamp(found, i) /\ file[start + n + 4] = Stamp(found, i))
  <2> SUFFICES ASSUME file[start + n + 3] = Stamp(found, i), file[start + n + 4] = Stamp(found, i)
               PROVE FALSE
    OBVIOUS
  <2>1. start + (n + 3) = start + n + 3 /\ start + (n + 4) = start + n + 4
        /\ n + 3 \in 1..(n + 4) /\ n + 4 \in 1..(n + 4) /\ n + 3 # n + 4
    BY <1>1
  <2>2. CASE k \in {n + 3, n + 4}
    <3>1. found = payload
      <4>1. \A l \in 1..n : l + 2 \in 1..(n + 4) /\ l + 2 # k /\ start + (l + 2) = start + 2 + l
        BY <1>1, <2>2
      <4>2. \A l \in 1..n : file[start + 2 + l] = payload[l]
        BY <1>1, <1>2, <4>1
      <4>3. payload = [l \in 1..n |-> payload[l]]
        BY <1>1 DEF n
      <4> QED
        BY <1>6, <4>2, <4>3
    <3>2. file[start + k] = stamp
      BY <2>1, <2>2, <3>1 DEF stamp
    <3> QED
      BY <1>2, <1>3, <2>2, <3>2
  <2>3. CASE k \notin {n + 3, n + 4}
    <3>1. k - 2 \in 1..n /\ k - 2 + 2 = k /\ start + 2 + (k - 2) = start + k
      BY <1>1, <1>3, <2>3
    <3>2. file[start + n + 3] = stamp
      <4>1. file[start + (n + 3)] = made[n + 3]
        BY <1>1, <2>1, <2>3
      <4> QED
        BY <1>2, <2>1, <4>1
    <3>3. Checked(found, i) = Checked(payload, i)
      <4>1. Stamp(found, i) = Stamp(payload, i)
        BY <3>2 DEF stamp
      <4>2. Stamp(found, i).of = Stamp(payload, i).of
        BY <4>1
      <4> QED
        BY <4>2 DEF Stamp
    <3>4. /\ Checked(found, i)[Ahead + (k - 2)] = found[k - 2]
          /\ Checked(payload, i)[Ahead + (k - 2)] = payload[k - 2]
      <4>1. payload \in Seq(FileByte)
        BY <1>1, ByteTypes
      <4>2. k - 2 \in 1..Len(found) /\ k - 2 \in 1..Len(payload)
        BY <1>6, <3>1 DEF n
      <4> QED
        BY <1>1, <1>6, <4>1, <4>2, CheckedBytes
    <3>5. found[k - 2] = file[start + k]
      BY <1>6, <3>1
    <3>6. payload[k - 2] = made[k]
      BY <1>2, <3>1
    <3> QED
      BY <1>3, <3>3, <3>4, <3>5, <3>6
  <2> QED
    BY <2>2, <2>3
<1>8. /\ ReadFrame(file, start, i).claimed = n + 4
      /\ ReadFrame(file, start, i).kind = IF mac THEN "mac" ELSE "corrupt"
  BY <1>1, <1>4, <1>5, <1>7, ReadsLong DEF found
<1> QED
  BY <1>1, <1>8 DEF start, payload

\* A change of a length leaves none either, whatever it claims now: the trailer that it
\* would have is that of another payload, which is shorter.
LEMMA ReadsDamagedPrefix ==
  ASSUME TypeOK, NEW frames, LayoutInv(frames), NEW i \in 1..Len(frames),
         NEW k \in 1..SizeOf(frames[i].payload), damaged = StartOf(frames, i) + k,
         file[damaged] # MakeFrame(frames[i].payload, i)[k], k <= 2
  PROVE  ReadFrame(file, StartOf(frames, i), i).kind # "entry"
<1> DEFINE start   == StartOf(frames, i)
           payload == frames[i].payload
           n       == Len(payload)
           made    == MakeFrame(payload, i)
           found   == PayloadAt(file, start)
           length  == Length(file, start)
           at      == start + length + 3
<1>1. /\ file \in Seq(FileByte) /\ Len(file) \in Nat /\ start \in Nat /\ k \in Nat
      /\ i \in Nat /\ n \in Nat /\ n <= MaxPayload /\ SizeOf(payload) = n + 4
      /\ IsPayload(payload) /\ payload \in Seq(Bytes)
      /\ frames[i].byteOffset = start + n + 4
      /\ start + n + 4 <= Len(file) /\ file[damaged] \in Bytes
      /\ \A l \in 1..(n + 4) : l # k => file[start + l] = made[l]
  BY DamagedFrame
<1>2. /\ made[1] = Byte(n \div Radix) /\ made[2] = Byte(n % Radix)
      /\ \A l \in 1..n : made[l + 2] = payload[l]
  BY <1>1, FrameBytes
<1>3. /\ file[start + k] # made[k] /\ file[start + k] \in Bytes
      /\ k \in {1, 2} /\ n \in 0..MaxPayload
  BY <1>1, PrefixHoldsTheLimit
<1>4. length \in Nat /\ start + 2 <= Len(file)
  <2>1. start + 2 <= Len(file)
    BY <1>1
  <2> QED
    BY <1>1, <2>1, LengthIsNatural
<1> HIDE DEF start, payload, n, made, found
<1>5. length # n
  <2> SUFFICES ASSUME length = n PROVE FALSE
    OBVIOUS
  <2> DEFINE a == file[start + 1].value
             b == file[start + 2].value
             c == n \div Radix
             d == n % Radix
  <2>1. a \in 0..(Radix - 1) /\ b \in 0..(Radix - 1)
    <3>1. start + 1 \in 1..Len(file) /\ start + 2 \in 1..Len(file)
      BY <1>1, <1>4
    <3>2. file[start + 1] \in FileByte /\ file[start + 2] \in FileByte
      BY <1>1, <3>1
    <3> QED
      BY <3>2 DEF FileByte
  <2>2. c \in 0..(Radix - 1) /\ d \in 0..(Radix - 1) /\ c * Radix + d = n
    BY <1>3, PrefixDecodes
  <2>3. a * Radix + b = n
    BY DEF Length
  <2> HIDE DEF a, b, c, d
  <2>4. a = c /\ b = d
    BY <2>1, <2>2, <2>3, PrefixIsUnique
  <2>5. CASE k = 1
    <3>1. file[start + 1] = Byte(c)
      BY <1>3, <2>4, <2>5 DEF Bytes, Byte, a
    <3> QED
      BY <1>2, <1>3, <2>5, <3>1 DEF c
  <2>6. CASE k = 2
    <3>1. file[start + 2] = Byte(d)
      BY <1>3, <2>4, <2>6 DEF Bytes, Byte, b
    <3> QED
      BY <1>2, <1>3, <2>6, <3>1 DEF d
  <2> QED
    BY <1>3, <2>5, <2>6
<1> SUFFICES ASSUME ReadFrame(file, start, i).kind = "entry" PROVE FALSE
  BY DEF start
<1> HIDE DEF length
<1>6. length <= MaxPayload /\ start + length + 4 <= Len(file) /\ file[at] = Stamp(found, i)
  <2> DEFINE frame == ReadFrame(file, start, i)
             stamp == Stamp(found, i)
  <2> HIDE DEF frame, stamp
  <2>1. frame.kind = "entry"
    BY DEF frame
  <2>2. /\ length > MaxPayload => frame.kind = "corrupt"
        /\ length <= MaxPayload /\ start + length + 4 > Len(file) => frame.kind = "truncated"
        /\ length <= MaxPayload /\ start + length + 4 <= Len(file) =>
              IF file[start + length + 3] = stamp /\ file[start + length + 4] = stamp
              THEN TRUE ELSE frame.kind = IF mac THEN "mac" ELSE "corrupt"
    BY <1>1, <1>4, ReadsLong DEF frame, stamp, length, found
  <2>3. length <= MaxPayload
    BY <1>4, <2>1, <2>2, PrefixHoldsTheLimit
  <2>4. start + length + 4 <= Len(file)
    BY <1>1, <1>4, <2>1, <2>2, <2>3
  <2> QED
    BY <2>1, <2>2, <2>3, <2>4 DEF stamp
<1>7. found \in Seq(FileByte) /\ Len(found) = length
  <2>1. start + length + 2 <= Len(file)
    BY <1>1, <1>4, <1>6
  <2> QED
    BY <1>1, <1>4, <2>1, PayloadIs DEF found, length
<1>8. /\ file[at].value = 0 /\ file[at].of = Checked(found, i)
      /\ Len(file[at].of) = Ahead + length /\ Ahead \in Nat
  <2>1. file[at].value = 0 /\ file[at].of = Checked(found, i)
    BY <1>6 DEF Stamp
  <2> QED
    BY <1>1, <1>7, <2>1, CheckedBytes
<1>9. at \in 1..Len(file) /\ at # damaged /\ at > start
  <2>1. start \in Nat /\ length \in Nat /\ Len(file) \in Nat /\ start + length + 4 <= Len(file)
    BY <1>1, <1>4, <1>6
  <2>2. damaged = start + k /\ k \in {1, 2}
    BY <1>3 DEF start
  <2> QED
    BY <2>1, <2>2
<1> HIDE DEF at
<1>10. CASE file[at].of = <<>>
  <2>1. length = 0
    <3>1. Len(file[at].of) = 0
      BY <1>10
    <3> QED
      BY <1>4, <1>8, <3>1
  <2>2. at = start + 3 /\ n # 0
    BY <1>1, <1>5, <2>1 DEF at
  <2>3. payload # <<>> /\ 1 \in 1..n
    BY <1>1, <2>2 DEF n
  <2>4. payload[1].value # 0
    BY <1>1, <2>3 DEF IsPayload
  <2>5. 3 \in 1..(n + 4) /\ 3 # k
    BY <1>1
  <2>6. file[at] = made[3]
    BY <1>1, <2>2, <2>5
  <2>7. made[3] = payload[1]
    BY <1>2, <2>3
  <2> QED
    BY <1>8, <2>4, <2>6, <2>7
<1>11. CASE file[at].of # <<>>
  <2>1. PICK j \in 1..(Len(frames) + 1), other \in Seq(Bytes) :
          LET from == IF j = Len(frames) + 1 THEN EndOf(frames) ELSE StartOf(frames, j)
          IN  /\ Len(file[at].of) = Ahead + Len(other)
              /\ at = from + Len(other) + 3 \/ at = from + Len(other) + 4
              /\ j # Len(frames) + 1 => other = frames[j].payload
    BY <1>9, <1>11, StampsOfFile
  <2> DEFINE from == IF j = Len(frames) + 1 THEN EndOf(frames) ELSE StartOf(frames, j)
  <2>2. /\ IsLayout(frames) /\ Len(frames) \in Nat /\ EndOf(frames) \in Nat
        /\ j # Len(frames) + 1 => j \in 1..Len(frames)
    <3>1. IsLayout(frames)
      BY DEF LayoutInv
    <3>2. Len(frames) \in Nat /\ EndOf(frames) \in Nat
      BY <3>1, LayoutFacts
    <3> QED
      BY <3>1, <3>2
  <2>3. from \in Nat
    BY <2>2, LayoutFacts
  <2>4. Len(other) = length
    <3>1. Len(other) \in Nat
      OBVIOUS
    <3> QED
      BY <1>4, <1>8, <2>1, <3>1
  <2>5. from = start \/ from + 1 = start
    <3>1. at = from + length + 3 \/ at = from + length + 4
      BY <2>1, <2>4
    <3> HIDE DEF from
    <3>2. start \in Nat /\ length \in Nat
      BY <1>1, <1>4
    <3> QED
      BY <2>3, <3>1, <3>2 DEF at
  <2>6. CASE j = Len(frames) + 1
    <3>1. frames[i].byteOffset <= EndOf(frames)
      BY <2>2, LayoutOrder
    <3> QED
      BY <1>1, <2>2, <2>5, <2>6, <3>1
  <2>7. CASE j # Len(frames) + 1
    <3>1. j \in 1..Len(frames) /\ from = StartOf(frames, j) /\ other = frames[j].payload
      BY <2>1, <2>2, <2>7
    <3> HIDE DEF from
    <3>2. j # i
      BY <1>5, <2>4, <3>1 DEF n, payload
    <3>3. CASE i < j
      <4>1. frames[i].byteOffset <= from
        BY <2>2, <3>1, <3>3, LayoutOrder
      <4> QED
        BY <1>1, <2>3, <2>5, <4>1
    <3>4. CASE j < i
      <4>1. frames[j].byteOffset <= start /\ frames[j].byteOffset = from + length + 4
        BY <2>2, <2>4, <3>1, <3>4, LayoutOrder, LayoutFacts DEF start
      <4> QED
        BY <1>1, <1>4, <2>3, <2>5, <4>1
    <3> QED
      BY <2>2, <3>1, <3>2, <3>3, <3>4
  <2> QED
    BY <2>6, <2>7
<1> QED
  BY <1>10, <1>11

-----------------------------------------------------------------------------
\* What a scan makes of the file

\* The frame behind a layout.
NextOf(frames, payload) ==
  [index |-> Len(frames) + 1, byteOffset |-> EndOf(frames) + SizeOf(payload), payload |-> payload]

\* A layout goes on with one more frame.
LEMMA LayoutAppend ==
  ASSUME NEW frames, IsLayout(frames), NEW payload, IsPayload(payload)
  PROVE  LET more == Append(frames, NextOf(frames, payload))
         IN  /\ IsLayout(more) /\ Len(more) = Len(frames) + 1 /\ DOMAIN more = 1..(Len(frames) + 1)
             /\ EndOf(more) = EndOf(frames) + SizeOf(payload)
             /\ \A i \in 1..Len(frames) : /\ more[i] = frames[i]
                                          /\ StartOf(more, i) = StartOf(frames, i)
             /\ more[Len(frames) + 1] = NextOf(frames, payload)
             /\ StartOf(more, Len(frames) + 1) = EndOf(frames)
<1> DEFINE next == NextOf(frames, payload)
           more == Append(frames, next)
           n    == Len(frames)
<1>1. /\ frames \in Seq(Frame) /\ n \in Nat /\ EndOf(frames) \in Nat
      /\ n = 0 => EndOf(frames) = 0
      /\ n # 0 => EndOf(frames) = frames[n].byteOffset
  <2>1. frames \in Seq(Frame)
    BY DEF IsLayout
  <2>2. n = 0 <=> frames = <<>>
    BY <2>1
  <2> QED
    BY <2>1, <2>2, LayoutFacts
<1>2. payload \in Seq(Bytes) /\ SizeOf(payload) \in Nat
  <2>1. payload \in Seq(Bytes)
    BY DEF IsPayload
  <2>2. Len(payload) \in Nat /\ 2 + Len(payload) + 2 \in Nat
    BY <2>1
  <2> QED
    BY <2>1, <2>2 DEF SizeOf, PrefixSize, TrailerSize
<1>3. next \in Frame
  BY <1>1, <1>2 DEF NextOf, Frame
<1> HIDE DEF next
<1>4. /\ more \in Seq(Frame) /\ Len(more) = n + 1 /\ DOMAIN more = 1..(n + 1)
      /\ \A i \in 1..n : more[i] = frames[i]
      /\ more[n + 1] = next
  BY <1>1, <1>3
<1> HIDE DEF more, n
<1>5. \A i \in 1..n : StartOf(more, i) = StartOf(frames, i)
  <2>1. \A i \in 1..n : i # 1 => i - 1 \in 1..n
    BY <1>1
  <2> QED
    BY <1>4, <2>1 DEF StartOf
<1>6. StartOf(more, n + 1) = EndOf(frames)
  <2>1. n # 0 => n \in 1..n /\ n + 1 # 1 /\ n + 1 - 1 = n
    BY <1>1
  <2>2. n = 0 => n + 1 = 1
    OBVIOUS
  <2> QED
    BY <1>1, <1>4, <2>1, <2>2 DEF StartOf
<1>7. EndOf(more) = EndOf(frames) + SizeOf(payload)
  <2>1. more # <<>>
    BY <1>1, <1>4
  <2>2. EndOf(more) = next.byteOffset
    BY <1>4, <2>1 DEF EndOf
  <2> QED
    BY <2>2 DEF next, NextOf
<1>8. ASSUME NEW i \in 1..(n + 1)
      PROVE  /\ more[i].index = i
             /\ more[i].byteOffset = StartOf(more, i) + SizeOf(more[i].payload)
             /\ IsPayload(more[i].payload)
  <2>1. CASE i \in 1..n
    <3>1. /\ frames[i].index = i
          /\ frames[i].byteOffset = StartOf(frames, i) + SizeOf(frames[i].payload)
          /\ IsPayload(frames[i].payload)
      BY <1>1, <2>1 DEF IsLayout, n
    <3> QED
      BY <1>4, <1>5, <2>1, <3>1
  <2>2. CASE i = n + 1
    BY <1>4, <1>6, <2>2 DEF next, NextOf, n
  <2> QED
    BY <1>1, <2>1, <2>2
<1>9. IsLayout(more)
  BY <1>4, <1>8 DEF IsLayout
<1> QED
  BY <1>4, <1>5, <1>6, <1>7, <1>9 DEF next, more, n

\* Without a MAC the bytes of space are those of an empty frame.
LEMMA SpaceIsFrame ==
  ASSUME ~mac, NEW index \in Nat
  PROVE  /\ IsPayload(<<>>) /\ SizeOf(<<>>) = 4
         /\ \A k \in 1..4 : MakeFrame(<<>>, index)[k] = Byte(0)
<1>1. <<>> \in Seq(Bytes) /\ Len(<<>>) = 0 /\ 0 <= MaxPayload
  BY PrefixHoldsTheLimit
<1>2. SizeOf(<<>>) = 4
  BY <1>1 DEF SizeOf, PrefixSize, TrailerSize
<1>3. IsPayload(<<>>)
  BY <1>1 DEF IsPayload
<1>4. 0 \div Radix = 0 /\ 0 % Radix = 0
  BY ScanBounds
<1>5. Stamp(<<>>, index) = Byte(0)
  <2>1. <<>> \o <<>> = <<>>
    OBVIOUS
  <2> QED
    BY <2>1 DEF Stamp, Checked, Byte
<1>6. /\ MakeFrame(<<>>, index)[1] = Byte(0) /\ MakeFrame(<<>>, index)[2] = Byte(0)
      /\ MakeFrame(<<>>, index)[0 + 3] = Byte(0) /\ MakeFrame(<<>>, index)[0 + 4] = Byte(0)
  BY <1>1, <1>4, <1>5, FrameBytes
<1>7. \A k \in 1..4 : k = 1 \/ k = 2 \/ k = 0 + 3 \/ k = 0 + 4
  OBVIOUS
<1> QED
  BY <1>2, <1>3, <1>6, <1>7

\* So a scan without a MAC takes space for empty frames, each a frame more of the layout.
LEMMA SpaceExtendsLayout ==
  ASSUME TypeOK, NEW frames, LayoutInv(frames), ~mac, TornSpace(frames),
         EndOf(frames) + 4 <= Len(file)
  PROVE  LayoutInv(Append(frames, NextOf(frames, <<>>)))
         /\ EndOf(Append(frames, NextOf(frames, <<>>))) = EndOf(frames) + 4
<1> DEFINE next == NextOf(frames, <<>>)
           more == Append(frames, next)
           n    == Len(frames)
<1>1. /\ IsLayout(frames) /\ n \in Nat /\ EndOf(frames) \in Nat /\ DOMAIN frames = 1..n
      /\ Len(file) \in Nat /\ n + 1 \in Nat
  BY LayoutFacts DEF LayoutInv, TypeOK
<1>2. /\ IsPayload(<<>>) /\ SizeOf(<<>>) = 4
      /\ \A k \in 1..4 : MakeFrame(<<>>, n + 1)[k] = Byte(0)
  BY <1>1, SpaceIsFrame
<1>3. /\ IsLayout(more) /\ Len(more) = n + 1 /\ DOMAIN more = 1..(n + 1)
      /\ EndOf(more) = EndOf(frames) + 4
      /\ \A i \in 1..n : more[i] = frames[i] /\ StartOf(more, i) = StartOf(frames, i)
      /\ more[n + 1] = next /\ StartOf(more, n + 1) = EndOf(frames)
      /\ next.payload = <<>>
  BY <1>1, <1>2, LayoutAppend DEF NextOf
<1> HIDE DEF next, more
<1>4. \A k \in 1..(Len(file) - EndOf(frames)) : file[EndOf(frames) + k] = Byte(0)
  BY DEF TornSpace
<1>5. HoldsFrames(more)
  <2>1. ASSUME NEW i \in 1..(n + 1), NEW k \in 1..SizeOf(more[i].payload),
               StartOf(more, i) + k # damaged
        PROVE  file[StartOf(more, i) + k] = MakeFrame(more[i].payload, i)[k]
    <3>1. CASE i \in 1..n
      BY <1>1, <1>3, <2>1, <3>1 DEF LayoutInv, HoldsFrames
    <3>2. CASE i = n + 1
      <4>1. more[i].payload = <<>> /\ k \in 1..4 /\ StartOf(more, i) = EndOf(frames)
        BY <1>2, <1>3, <3>2
      <4>2. k \in 1..(Len(file) - EndOf(frames))
        BY <1>1, <4>1
      <4> QED
        BY <1>2, <1>4, <3>2, <4>1, <4>2
    <3> QED
      BY <1>1, <3>1, <3>2
  <2> QED
    BY <1>3, <2>1 DEF HoldsFrames
<1>6. DamageInv(more)
  <2> SUFFICES ASSUME damaged # 0 PROVE DamageInv(more)
    BY DEF DamageInv
  <2>1. /\ file[damaged] \in Bytes
        /\ \E i \in 1..n : \E k \in 1..SizeOf(frames[i].payload) :
             /\ damaged = StartOf(frames, i) + k
             /\ file[damaged] # MakeFrame(frames[i].payload, i)[k]
    BY <1>1 DEF LayoutInv, DamageInv
  <2>2. \A i \in 1..n : i \in DOMAIN more
    BY <1>1, <1>3
  <2> QED
    BY <1>3, <2>1, <2>2 DEF DamageInv
<1>7. TailInv(more)
  <2>1. ASSUME NEW k \in 1..(Len(file) - EndOf(more)) PROVE file[EndOf(more) + k] = Byte(0)
    <3>1. 4 + k \in 1..(Len(file) - EndOf(frames)) /\ EndOf(more) + k = EndOf(frames) + (4 + k)
      BY <1>1, <1>3
    <3> QED
      BY <1>4, <3>1
  <2> QED
    BY <2>1 DEF TailInv, TornSpace
<1>8. HandleInv(more)
  BY <1>1 DEF LayoutInv, HandleInv
<1>9. WrittenInv(more)
  <2>1. {i \in 1..(n + 1) : IsEntry(more[i])} = {i \in 1..n : IsEntry(frames[i])}
    BY <1>1, <1>3 DEF IsEntry
  <2>2. {more[i] : i \in {i \in 1..n : IsEntry(frames[i])}}
          = {frames[i] : i \in {i \in 1..n : IsEntry(frames[i])}}
    BY <1>3
  <2> QED
    BY <1>1, <1>3, <2>1, <2>2 DEF LayoutInv, WrittenInv
<1> HIDE DEF n
<1> QED
  BY <1>1, <1>3, <1>5, <1>6, <1>7, <1>8, <1>9 DEF LayoutInv, more, next, HoldsFrames

\* No entry is behind these frames, and what is there is a torn tail, or fails a MAC.
NoneBehind(frames) ==
  LET kind == ReadFrame(file, EndOf(frames), Len(frames) + 1).kind
  IN  kind \in {"eof", "truncated"} \/ (kind = "mac" /\ mac /\ unwritten)

\* Take the layout that leaves the least of the file behind it: there is no entry there.
LEMMA WholeLayout ==
  ASSUME IInv
  PROVE  \E frames : LayoutInv(frames) /\ NoneBehind(frames)
<1> DEFINE Rest(frames) == Len(file) - EndOf(frames)
           Rests == {r \in Nat : \E frames \in Seq(Frame) : LayoutInv(frames) /\ r = Rest(frames)}
<1>1. TypeOK /\ file \in Seq(FileByte) /\ Len(file) \in Nat
  BY DEF IInv, TypeOK, FileByte
<1>2. \A frames : LayoutInv(frames) =>
        /\ frames \in Seq(Frame) /\ EndOf(frames) \in Nat /\ Len(frames) \in Nat
        /\ EndOf(frames) <= Len(file) /\ Rest(frames) \in Rests
  <2> SUFFICES ASSUME NEW frames, LayoutInv(frames)
               PROVE  /\ frames \in Seq(Frame) /\ EndOf(frames) \in Nat /\ Len(frames) \in Nat
                      /\ EndOf(frames) <= Len(file) /\ Rest(frames) \in Rests
    OBVIOUS
  <2>1. /\ frames \in Seq(Frame) /\ EndOf(frames) \in Nat /\ Len(frames) \in Nat
        /\ EndOf(frames) <= Len(file)
    BY LayoutFacts DEF LayoutInv, IsLayout, HoldsFrames
  <2>2. Rest(frames) \in Nat
    BY <1>1, <2>1
  <2> QED
    BY <2>1, <2>2
<1>3. Rests # {} /\ Rests \in SUBSET Nat
  BY <1>2 DEF IInv
<1>4. PICK r \in Rests : \A q \in Rests : r <= q
  BY <1>3, LeastNatural
<1>5. PICK frames \in Seq(Frame) : LayoutInv(frames) /\ r = Rest(frames)
  BY <1>4
<1>6. /\ EndOf(frames) \in Nat /\ Len(frames) \in Nat /\ EndOf(frames) <= Len(file)
      /\ Len(frames) + 1 \in Nat
  BY <1>2, <1>5
<1>7. NoneBehind(frames)
  <2>1. CASE EndOf(frames) = Len(file)
    <3>1. ReadFrame(file, EndOf(frames), Len(frames) + 1).kind = "eof"
      BY <1>1, <1>6, <2>1, ReadsShort
    <3> QED
      BY <3>1 DEF NoneBehind
  <2>2. CASE TornFrame(frames)
    <3>1. PICK payload \in Seq(Bytes) :
            /\ IsPayload(payload)
            /\ Len(file) < EndOf(frames) + SizeOf(payload)
            /\ \A k \in 1..(Len(file) - EndOf(frames)) :
                 file[EndOf(frames) + k] = MakeFrame(payload, Len(frames) + 1)[k]
      BY <2>2 DEF TornFrame
    <3>2. ReadFrame(file, EndOf(frames), Len(frames) + 1).kind \in {"eof", "truncated"}
      BY <1>1, <1>6, <3>1, ReadsTornFrame
    <3> QED
      BY <3>2 DEF NoneBehind
  <2>3. CASE TornSpace(frames)
    <3>1. /\ unwritten
          /\ \A k \in 1..(Len(file) - EndOf(frames)) : file[EndOf(frames) + k] = Byte(0)
      BY <2>3 DEF TornSpace
    <3>2. mac \/ Len(file) < EndOf(frames) + 4
      <4> SUFFICES ASSUME ~mac, ~(Len(file) < EndOf(frames) + 4) PROVE FALSE
        OBVIOUS
      <4> DEFINE more == Append(frames, NextOf(frames, <<>>))
      <4>1. EndOf(frames) + 4 <= Len(file)
        BY <1>1, <1>6
      <4>2. LayoutInv(more) /\ EndOf(more) = EndOf(frames) + 4
        BY <1>1, <1>5, <2>3, <4>1, SpaceExtendsLayout
      <4> HIDE DEF more
      <4>3. Rest(more) \in Rests
        BY <1>2, <4>2
      <4>4. r <= Rest(more)
        BY <1>4, <4>3
      <4> QED
        BY <1>1, <1>5, <1>6, <4>2, <4>4
    <3>3. ReadFrame(file, EndOf(frames), Len(frames) + 1).kind \in
            IF Len(file) < EndOf(frames) + 4 THEN {"eof", "truncated"}
            ELSE IF mac THEN {"mac"} ELSE {"entry"}
      BY <1>1, <1>6, <3>1, ReadsSpace
    <3> QED
      BY <3>1, <3>2, <3>3 DEF NoneBehind
  <2> QED
    BY <1>5, <2>1, <2>2, <2>3 DEF LayoutInv, TailInv
<1> QED
  BY <1>5, <1>7

\* The frames in front of one of a layout are a layout, which ends where that one begins.
LEMMA LayoutCut ==
  ASSUME NEW frames, IsLayout(frames), NEW i \in 1..Len(frames)
  PROVE  LET front == SubSeq(frames, 1, i - 1)
         IN  /\ IsLayout(front) /\ Len(front) = i - 1 /\ DOMAIN front = 1..(i - 1)
             /\ EndOf(front) = StartOf(frames, i)
             /\ \A j \in 1..(i - 1) : /\ front[j] = frames[j] /\ j \in 1..Len(frames)
                                      /\ StartOf(front, j) = StartOf(frames, j)
<1> DEFINE front == SubSeq(frames, 1, i - 1)
           n == Len(frames)
<1>1. frames \in Seq(Frame) /\ n \in Nat /\ i - 1 \in Nat /\ i - 1 <= n
  BY DEF IsLayout
<1>2. /\ front \in Seq(Frame) /\ Len(front) = i - 1 /\ DOMAIN front = 1..(i - 1)
      /\ \A j \in 1..(i - 1) : front[j] = frames[j]
  BY <1>1
<1> HIDE DEF front, n
<1>3. \A j \in 1..(i - 1) : j \in 1..n /\ (j # 1 => j - 1 \in 1..(i - 1))
  BY <1>1
<1>4. \A j \in 1..(i - 1) : StartOf(front, j) = StartOf(frames, j)
  BY <1>2, <1>3 DEF StartOf
<1>5. EndOf(front) = StartOf(frames, i)
  <2>1. front = <<>> <=> i = 1
    BY <1>1, <1>2
  <2>2. i # 1 => i - 1 \in 1..(i - 1)
    BY <1>1
  <2> QED
    BY <1>2, <2>1, <2>2 DEF EndOf, StartOf
<1>6. \A j \in 1..(i - 1) :
        /\ front[j].index = j
        /\ front[j].byteOffset = StartOf(front, j) + SizeOf(front[j].payload)
        /\ IsPayload(front[j].payload)
  <2>1. \A j \in 1..n :
        /\ frames[j].index = j
        /\ frames[j].byteOffset = StartOf(frames, j) + SizeOf(frames[j].payload)
        /\ IsPayload(frames[j].payload)
    BY <1>1 DEF IsLayout, n
  <2> QED
    BY <1>2, <1>3, <1>4, <2>1
<1>7. IsLayout(front)
  BY <1>2, <1>6 DEF IsLayout
<1> QED
  BY <1>2, <1>3, <1>4, <1>5, <1>7 DEF front, n

\* A frame is read as its entry unless the damaged byte is one of its own.
LEMMA ReadsFrame ==
  ASSUME TypeOK, NEW frames, LayoutInv(frames), NEW j \in 1..Len(frames),
         damaged \notin (StartOf(frames, j) + 1)..frames[j].byteOffset
  PROVE  /\ frames[j].index = j
         /\ ReadFrame(file, StartOf(frames, j), j)
              = [kind |-> "entry", claimed |-> frames[j].byteOffset - StartOf(frames, j),
                 payload |-> frames[j].payload]
<1> DEFINE start   == StartOf(frames, j)
           payload == frames[j].payload
           size    == SizeOf(payload)
<1>1. /\ IsLayout(frames) /\ EndOf(frames) <= Len(file) /\ file \in Seq(FileByte)
      /\ Len(file) \in Nat
  BY DEF LayoutInv, HoldsFrames, TypeOK, FileByte
<1>2. /\ start \in Nat /\ j \in Nat /\ size \in Nat /\ IsPayload(payload)
      /\ frames[j].byteOffset = start + size
      /\ EndOf(frames) \in Nat /\ frames[j].byteOffset <= EndOf(frames) /\ j \in DOMAIN frames
  <2>1. /\ start \in Nat /\ Len(payload) \in Nat /\ size = Len(payload) + 4 /\ IsPayload(payload)
        /\ frames[j].byteOffset = start + Len(payload) + 4
        /\ EndOf(frames) \in Nat /\ frames[j].byteOffset <= EndOf(frames) /\ j \in DOMAIN frames
    BY <1>1, LayoutFacts, LayoutOrder
  <2> QED
    BY <2>1
<1>3. \A k \in 1..size : start + k # damaged => file[start + k] = MakeFrame(payload, j)[k]
  BY <1>2 DEF LayoutInv, HoldsFrames
<1>4. frames[j].index = j
  BY <1>1, <1>2 DEF IsLayout
<1> HIDE DEF start, payload, size
<1>5. \A k \in 1..size : start + k # damaged
  BY <1>2 DEF start
<1>6. start + size <= Len(file) /\ frames[j].byteOffset - start = size
  BY <1>1, <1>2
<1>7. ReadFrame(file, start, j) = [kind |-> "entry", claimed |-> size, payload |-> payload]
  BY <1>1, <1>2, <1>3, <1>5, <1>6, ReadsIntact DEF size
<1> QED
  BY <1>4, <1>6, <1>7 DEF start, payload

\* Without damage a scan visits the frames of the layout, and fails only for a MAC over
\* space.
LEMMA ScanUndamaged ==
  ASSUME TypeOK, NEW frames, LayoutInv(frames), NoneBehind(frames), damaged = 0
  PROVE  LET scan == ScanJournal(file)
         IN  /\ scan.frames = frames /\ scan.size = EndOf(frames)
             /\ scan.error => mac /\ unwritten
<1> DEFINE last == ReadFrame(file, EndOf(frames), Len(frames) + 1)
<1>1. /\ IsLayout(frames) /\ frames \in Seq(Frame) /\ Len(file) \in Nat
      /\ EndOf(frames) <= Len(file)
  BY DEF LayoutInv, HoldsFrames, IsLayout, TypeOK
<1>2. Len(frames) \in Nat /\ EndOf(frames) \in Nat /\ Len(frames) <= EndOf(frames)
  BY <1>1, LayoutFacts, LayoutOrder
<1>3. Len(frames) <= Len(file)
  BY <1>1, <1>2
<1>4. \A i \in 1..Len(frames) :
        /\ frames[i].index = i
        /\ ReadFrame(file, StartOf(frames, i), i)
             = [kind |-> "entry", claimed |-> frames[i].byteOffset - StartOf(frames, i),
                payload |-> frames[i].payload]
  <2> SUFFICES ASSUME NEW i \in 1..Len(frames)
               PROVE  damaged \notin (StartOf(frames, i) + 1)..frames[i].byteOffset
    BY ReadsFrame
  <2>1. StartOf(frames, i) \in Nat
    BY <1>1, LayoutFacts
  <2> QED
    BY <2>1
<1>5. last.kind \in {"eof", "truncated"} \/ (last.kind = "mac" /\ mac /\ unwritten)
  BY DEF NoneBehind
<1> HIDE DEF last
<1>6. ScanJournal(file) =
        [frames |-> frames, size |-> EndOf(frames),
         error |-> last.kind # "eof" /\ ~TornTail(last, EndOf(frames), Len(file))]
  <2>1. last.kind # "entry"
    BY <1>5
  <2> QED
    BY <1>1, <1>3, <1>4, <2>1, ScanIs DEF last
<1>7. last.kind = "truncated" => TornTail(last, EndOf(frames), Len(file))
  BY DEF TornTail
<1> DEFINE broken == last.kind # "eof" /\ ~TornTail(last, EndOf(frames), Len(file))
<1>8. broken => mac /\ unwritten
  BY <1>5, <1>7
<1> HIDE DEF broken
<1>9. ScanJournal(file) = [frames |-> frames, size |-> EndOf(frames), error |-> broken]
  BY <1>6 DEF broken
<1>10. /\ ScanJournal(file).frames = frames /\ ScanJournal(file).size = EndOf(frames)
       /\ ScanJournal(file).error = broken
  BY <1>9
<1> QED
  BY <1>8, <1>10, Zenon

\* With damage it visits those in front of the damaged frame, and fails if that is not the
\* length of it and more of the file follows.
LEMMA ScanDamaged ==
  ASSUME TypeOK, NEW frames, LayoutInv(frames), NEW i \in 1..Len(frames),
         NEW k \in 1..SizeOf(frames[i].payload), damaged = StartOf(frames, i) + k,
         file[damaged] # MakeFrame(frames[i].payload, i)[k]
  PROVE  LET scan == ScanJournal(file)
         IN  /\ scan.frames = SubSeq(frames, 1, i - 1) /\ scan.size = StartOf(frames, i)
             /\ k > 2 /\ frames[i].byteOffset < Len(file) => scan.error
<1> DEFINE front == SubSeq(frames, 1, i - 1)
           start == StartOf(frames, i)
           last  == ReadFrame(file, start, i)
<1>1. /\ IsLayout(frames) /\ Len(file) \in Nat /\ EndOf(frames) <= Len(file)
      /\ Len(frames) \in Nat /\ EndOf(frames) \in Nat /\ Len(frames) <= EndOf(frames)
  <2>1. IsLayout(frames) /\ Len(file) \in Nat /\ EndOf(frames) <= Len(file)
    BY DEF LayoutInv, HoldsFrames, TypeOK
  <2> QED
    BY <2>1, LayoutFacts, LayoutOrder
<1>2. /\ IsLayout(front) /\ Len(front) = i - 1 /\ EndOf(front) = start
      /\ \A j \in 1..(i - 1) : /\ front[j] = frames[j] /\ j \in 1..Len(frames)
                               /\ StartOf(front, j) = StartOf(frames, j)
  BY <1>1, LayoutCut
<1>3. /\ start \in Nat /\ k \in Nat /\ SizeOf(frames[i].payload) \in Nat
      /\ frames[i].byteOffset = start + SizeOf(frames[i].payload)
  BY <1>1, LayoutFacts
<1> HIDE DEF front
<1>4. \A j \in 1..(i - 1) :
        /\ front[j].index = j
        /\ ReadFrame(file, StartOf(front, j), j)
             = [kind |-> "entry", claimed |-> front[j].byteOffset - StartOf(front, j),
                payload |-> front[j].payload]
  <2> SUFFICES ASSUME NEW j \in 1..(i - 1)
               PROVE  /\ frames[j].index = j
                      /\ ReadFrame(file, StartOf(frames, j), j)
                           = [kind |-> "entry",
                              claimed |-> frames[j].byteOffset - StartOf(frames, j),
                              payload |-> frames[j].payload]
    BY <1>2
  <2>1. j \in 1..Len(frames) /\ j < i
    BY <1>2
  <2>2. /\ StartOf(frames, j) \in Nat /\ frames[j].byteOffset \in Nat
        /\ frames[j].byteOffset <= start
    BY <1>1, <2>1, LayoutFacts, LayoutOrder
  <2>3. damaged \notin (StartOf(frames, j) + 1)..frames[j].byteOffset
    BY <1>3, <2>2
  <2> QED
    BY <2>1, <2>3, ReadsFrame
<1>5. last.kind # "entry"
  <2>1. k > 2 => last.kind = IF mac THEN "mac" ELSE "corrupt"
    BY ReadsDamagedBody
  <2>2. k <= 2 => last.kind # "entry"
    BY ReadsDamagedPrefix
  <2>3. k > 2 \/ k <= 2
    BY <1>3
  <2> HIDE DEF last
  <2> QED
    BY <2>1, <2>2, <2>3
<1>6. ScanJournal(file) =
        [frames |-> front, size |-> start,
         error |-> last.kind # "eof" /\ ~TornTail(last, start, Len(file))]
  <2>1. front \in Seq(Frame) /\ Len(front) <= Len(file)
    BY <1>1, <1>2 DEF IsLayout
  <2>2. Len(front) + 1 = i
    BY <1>2
  <2>3. last = ReadFrame(file, EndOf(front), Len(front) + 1)
    BY <1>2, <2>2
  <2> HIDE DEF last
  <2>4. \A j \in 1..Len(front) :
        /\ front[j].index = j
        /\ ReadFrame(file, StartOf(front, j), j)
             = [kind |-> "entry", claimed |-> front[j].byteOffset - StartOf(front, j),
                payload |-> front[j].payload]
    BY <1>2, <1>4
  <2>5. ScanJournal(file) =
        [frames |-> front, size |-> EndOf(front),
         error |-> last.kind # "eof" /\ ~TornTail(last, EndOf(front), Len(file))]
    BY <1>1, <1>5, <2>1, <2>3, <2>4, ScanIs
  <2> QED
    BY <1>2, <2>5
<1>7. ASSUME k > 2, frames[i].byteOffset < Len(file)
      PROVE  last.kind # "eof" /\ ~TornTail(last, start, Len(file))
  <2>1. /\ last.kind = IF mac THEN "mac" ELSE "corrupt"
        /\ last.claimed = SizeOf(frames[i].payload)
    BY <1>7, ReadsDamagedBody
  <2> HIDE DEF last
  <2>2. ~(start + last.claimed >= Len(file))
    BY <1>1, <1>3, <1>7, <2>1
  <2> QED
    BY <2>1, <2>2 DEF TornTail
<1> DEFINE broken == last.kind # "eof" /\ ~TornTail(last, start, Len(file))
<1> HIDE DEF last, start
<1>8. k > 2 /\ frames[i].byteOffset < Len(file) => broken
  BY <1>7
<1> HIDE DEF broken
<1>9. ScanJournal(file) = [frames |-> front, size |-> start, error |-> broken]
  BY <1>6 DEF broken
<1>10. /\ ScanJournal(file).frames = front /\ ScanJournal(file).size = start
       /\ ScanJournal(file).error = broken
  BY <1>9
<1> QED
  BY <1>8, <1>10, Zenon DEF front, start

-----------------------------------------------------------------------------
\* The properties

\* The frames of a layout that are not space.
Entries(frames) == {frames[i] : i \in {n \in DOMAIN frames : IsEntry(frames[n])}}

\* The damaged byte is one of a frame of the layout.
LEMMA DamageIsIn ==
  ASSUME NEW frames, LayoutInv(frames), damaged # 0
  PROVE  \E i \in 1..Len(frames) : \E k \in 1..SizeOf(frames[i].payload) :
           /\ damaged = StartOf(frames, i) + k
           /\ file[damaged] # MakeFrame(frames[i].payload, i)[k]
BY LayoutFacts DEF LayoutInv, DamageInv

\* The frames in front of the damage are those that begin and end there.
LEMMA FrontIsUndamaged ==
  ASSUME NEW frames, LayoutInv(frames), NEW i \in 1..Len(frames),
         NEW k \in 1..SizeOf(frames[i].payload), damaged = StartOf(frames, i) + k
  PROVE  /\ \A j \in 1..Len(frames) : Undamaged(frames[j]) <=> j < i
         /\ Entries(SubSeq(frames, 1, i - 1)) = {frame \in written : Undamaged(frame)}
<1> DEFINE front == SubSeq(frames, 1, i - 1)
<1>1. IsLayout(frames) /\ DOMAIN frames = 1..Len(frames) /\ Len(frames) \in Nat
  BY LayoutFacts DEF LayoutInv
<1>2. /\ StartOf(frames, i) \in Nat /\ k \in Nat /\ SizeOf(frames[i].payload) \in Nat
      /\ frames[i].byteOffset = StartOf(frames, i) + SizeOf(frames[i].payload)
      /\ damaged # 0
  <2>1. /\ StartOf(frames, i) \in Nat /\ SizeOf(frames[i].payload) \in Nat
        /\ frames[i].byteOffset = StartOf(frames, i) + SizeOf(frames[i].payload)
    <3>1. /\ StartOf(frames, i) \in Nat /\ Len(frames[i].payload) \in Nat
          /\ SizeOf(frames[i].payload) = Len(frames[i].payload) + 4
          /\ frames[i].byteOffset = StartOf(frames, i) + Len(frames[i].payload) + 4
      BY <1>1, LayoutFacts
    <3> QED
      BY <3>1
  <2> QED
    BY <2>1
<1>3. ASSUME NEW j \in 1..Len(frames) PROVE Undamaged(frames[j]) <=> j < i
  <2>1. frames[j].byteOffset \in Nat /\ StartOf(frames, j) \in Nat
        /\ frames[j].byteOffset >= StartOf(frames, j)
    <3>1. \A a, b, c \in Nat : a = b + c + 4 => a >= b
      OBVIOUS
    <3> QED
      BY <1>1, <3>1, LayoutFacts
  <2>2. CASE j < i
    <3>1. frames[j].byteOffset <= StartOf(frames, i)
      BY <1>1, <2>2, LayoutOrder
    <3> QED
      BY <1>2, <2>1, <2>2, <3>1 DEF Undamaged
  <2>3. CASE ~(j < i)
    <3>1. frames[i].byteOffset <= frames[j].byteOffset
      <4>1. CASE i = j
        BY <2>1, <4>1
      <4>2. CASE i < j
        <5>1. frames[i].byteOffset <= StartOf(frames, j)
          BY <1>1, <4>2, LayoutOrder
        <5> QED
          BY <1>2, <2>1, <5>1
      <4> QED
        BY <1>1, <2>3, <4>1, <4>2
    <3>2. ~(frames[j].byteOffset < damaged)
      BY <1>2, <2>1, <3>1
    <3> QED
      BY <1>2, <2>3, <3>2 DEF Undamaged
  <2> QED
    BY <2>2, <2>3
<1>4. /\ DOMAIN front = 1..(i - 1)
      /\ \A j \in 1..(i - 1) : front[j] = frames[j] /\ j \in 1..Len(frames)
  BY <1>1, LayoutCut
<1> HIDE DEF front
<1>5. \A j \in 1..Len(frames) : j < i <=> j \in 1..(i - 1)
  BY <1>1
<1>6. written = Entries(frames)
  BY DEF LayoutInv, WrittenInv, Entries
<1>7. ASSUME NEW x PROVE x \in Entries(front) <=> x \in {frame \in written : Undamaged(frame)}
  <2>1. x \in Entries(front) <=> \E j \in 1..(i - 1) : IsEntry(front[j]) /\ x = front[j]
    BY <1>4 DEF Entries
  <2>2. x \in written <=> \E j \in 1..Len(frames) : IsEntry(frames[j]) /\ x = frames[j]
    BY <1>1, <1>6 DEF Entries
  <2> QED
    BY <1>3, <1>4, <1>5, <2>1, <2>2
<1> QED
  BY <1>3, <1>7 DEF front

\* journal.go:533-534, from the invariant.
LEMMA ReadsFront ==
  ASSUME IInv
  PROVE  ReadsIntactFrames
<1>1. TypeOK
  BY DEF IInv
<1>2. PICK frames : LayoutInv(frames) /\ NoneBehind(frames)
  BY WholeLayout
<1> DEFINE visited == ScanJournal(file).frames
<1>3. \E seen : /\ visited = seen /\ IsLayout(seen)
                /\ Entries(seen) = {frame \in written : Undamaged(frame)}
  <2>1. CASE damaged = 0
    <3>1. visited = frames
      BY <1>1, <1>2, <2>1, ScanUndamaged
    <3>2. Entries(frames) = {frame \in written : Undamaged(frame)}
      BY <1>2, <2>1 DEF LayoutInv, WrittenInv, Entries, Undamaged
    <3> QED
      BY <1>2, <3>1, <3>2 DEF LayoutInv
  <2>2. CASE damaged # 0
    <3>1. PICK i \in 1..Len(frames) : \E k \in 1..SizeOf(frames[i].payload) :
            /\ damaged = StartOf(frames, i) + k
            /\ file[damaged] # MakeFrame(frames[i].payload, i)[k]
      BY <1>2, <2>2, DamageIsIn
    <3>2. PICK k \in 1..SizeOf(frames[i].payload) :
            /\ damaged = StartOf(frames, i) + k
            /\ file[damaged] # MakeFrame(frames[i].payload, i)[k]
      BY <3>1
    <3>3. visited = SubSeq(frames, 1, i - 1)
      BY <1>1, <1>2, <3>2, ScanDamaged
    <3>4. Entries(SubSeq(frames, 1, i - 1)) = {frame \in written : Undamaged(frame)}
      BY <1>2, <3>2, FrontIsUndamaged
    <3>5. IsLayout(SubSeq(frames, 1, i - 1))
      BY <1>2, LayoutCut DEF LayoutInv
    <3> QED
      BY <3>3, <3>4, <3>5
  <2> QED
    BY <2>1, <2>2
<1> HIDE DEF visited
<1>4. IsLayout(visited) /\ Entries(visited) = {frame \in written : Undamaged(frame)}
  BY <1>3
<1>5. ASSUME NEW i \in DOMAIN visited, NEW j \in DOMAIN visited, i < j
      PROVE  visited[i].byteOffset < visited[j].byteOffset
  <2>1. i \in 1..Len(visited) /\ j \in 1..Len(visited)
    BY <1>4, LayoutFacts
  <2>2. /\ visited[i].byteOffset \in Nat /\ StartOf(visited, j) \in Nat
        /\ Len(visited[j].payload) \in Nat
        /\ visited[i].byteOffset <= StartOf(visited, j)
        /\ visited[j].byteOffset = StartOf(visited, j) + Len(visited[j].payload) + 4
    BY <1>4, <1>5, <2>1, LayoutFacts, LayoutOrder
  <2> QED
    BY <2>2
<1> QED
  BY <1>4, <1>5 DEF ReadsIntactFrames, Entries, visited

\* journal.go:536-537, from the invariant.
LEMMA RecoversFromCrash ==
  ASSUME IInv
  PROVE  CrashRecovered
<1> SUFFICES ASSUME damaged = 0, ~(mac /\ unwritten) PROVE ~ScanJournal(file).error
  BY DEF CrashRecovered
<1>1. PICK frames : LayoutInv(frames) /\ NoneBehind(frames)
  BY WholeLayout
<1>2. ScanJournal(file).error => mac /\ unwritten
  BY <1>1, ScanUndamaged DEF IInv
<1> QED
  BY <1>2

\* journal.go:537-541, from the invariant: the damaged byte is in the frame of which the
\* property speaks, and no other frame of the layout has its offsets.
LEMMA ReportsBodyDamage ==
  ASSUME IInv
  PROVE  BodyDamageReported
<1> SUFFICES ASSUME NEW frame \in written, Interior(frame),
                    damaged \in (First(frame) + PrefixSize)..frame.byteOffset
             PROVE  ScanJournal(file).error
  BY DEF BodyDamageReported
<1>1. TypeOK
  BY DEF IInv
<1>2. PICK frames : LayoutInv(frames)
  BY DEF IInv
<1>3. IsLayout(frames) /\ DOMAIN frames = 1..Len(frames)
  BY <1>2, LayoutFacts DEF LayoutInv
<1>4. PICK j \in 1..Len(frames) : frame = frames[j]
  BY <1>2, <1>3 DEF LayoutInv, WrittenInv
<1> DEFINE start == StartOf(frames, j)
           n == Len(frame.payload)
<1>5. start \in Nat /\ n \in Nat /\ frame.byteOffset = start + n + 4
  BY <1>3, <1>4, LayoutFacts
<1> HIDE DEF start, n
<1>6. damaged \in (start + 3)..(start + n + 4) /\ damaged # 0
  <2>1. First(frame) + 2 = start + 3
    <3>1. First(frame) = (start + n + 4) - 2 - n - 2 + 1
      BY <1>5, Zenon DEF First, PrefixSize, TrailerSize, n
    <3> QED
      BY <1>5, <3>1
  <2> QED
    BY <1>5, <2>1 DEF PrefixSize
<1>7. PICK i \in 1..Len(frames) : \E k \in 1..SizeOf(frames[i].payload) :
        /\ damaged = StartOf(frames, i) + k
        /\ file[damaged] # MakeFrame(frames[i].payload, i)[k]
  BY <1>2, <1>6, DamageIsIn
<1>8. PICK k \in 1..SizeOf(frames[i].payload) :
        /\ damaged = StartOf(frames, i) + k
        /\ file[damaged] # MakeFrame(frames[i].payload, i)[k]
  BY <1>7
<1>9. i = j
  <2>1. /\ StartOf(frames, i) \in Nat /\ k \in Nat
        /\ StartOf(frames, i) + k <= frames[i].byteOffset /\ frames[i].byteOffset \in Nat
        /\ Len(frames) \in Nat
    <3>1. /\ StartOf(frames, i) \in Nat /\ Len(frames[i].payload) \in Nat /\ Len(frames) \in Nat
          /\ SizeOf(frames[i].payload) = Len(frames[i].payload) + 4
          /\ frames[i].byteOffset = StartOf(frames, i) + Len(frames[i].payload) + 4
      BY <1>3, LayoutFacts
    <3> QED
      BY <3>1
  <2>2. ~(i < j)
    <3> SUFFICES ASSUME i < j PROVE FALSE
      OBVIOUS
    <3>1. frames[i].byteOffset <= start
      BY <1>3, LayoutOrder DEF start
    <3> QED
      BY <1>5, <1>6, <1>8, <2>1, <3>1
  <2>3. ~(j < i)
    <3> SUFFICES ASSUME j < i PROVE FALSE
      OBVIOUS
    <3>1. start + n + 4 <= StartOf(frames, i)
      BY <1>3, <1>4, <1>5, LayoutOrder
    <3> QED
      BY <1>5, <1>6, <1>8, <2>1, <3>1
  <2> QED
    BY <2>1, <2>2, <2>3
<1>10. k > 2 /\ frames[i].byteOffset < Len(file)
  <2>1. damaged = start + k
    BY <1>8, <1>9 DEF start
  <2>2. k > 2
    BY <1>5, <1>6, <2>1
  <2> QED
    BY <1>4, <1>9, <2>2 DEF Interior
<1> QED
  BY <1>1, <1>2, <1>8, <1>10, ScanDamaged

-----------------------------------------------------------------------------
\* Steps

\* What of a layout depends on the key alone.
LEMMA SameKey ==
  ASSUME mac' = mac
  PROVE  /\ \A payload, index : MakeFrame(payload, index)' = MakeFrame(payload, index)
         /\ \A payload : IsPayload(payload)' <=> IsPayload(payload)
         /\ \A frames : IsLayout(frames)' <=> IsLayout(frames)
<1>1. \A payload : IsPayload(payload)' <=> IsPayload(payload)
  BY DEF IsPayload
<1>2. \A payload, index : MakeFrame(payload, index)' = MakeFrame(payload, index)
  BY DEF MakeFrame, Trailer
<1>3. \A frames : IsLayout(frames)' <=> IsLayout(frames)
  BY <1>1 DEF IsLayout
<1> QED
  BY <1>1, <1>2, <1>3

\* What a layout says of the records that are written.
LEMMA WrittenTypes ==
  ASSUME NEW frames, IsLayout(frames), NEW size \in Nat, EndOf(frames) <= size,
         NEW frame \in Entries(frames)
  PROVE  frame.index \in Nat /\ frame.byteOffset \in 0..size /\ frame.payload \in Seq(Bytes)
<1>1. PICK i \in 1..Len(frames) : frame = frames[i]
  BY LayoutFacts DEF Entries
<1>2. /\ frames[i] \in Frame /\ frames[i].byteOffset \in Nat /\ EndOf(frames) \in Nat
      /\ frames[i].byteOffset <= EndOf(frames)
  BY LayoutFacts, LayoutOrder
<1> QED
  BY <1>1, <1>2 DEF Frame

\* A file that is added to holds what it held.
LEMMA LongerFile ==
  ASSUME TypeOK, NEW frames, LayoutInv(frames), UNCHANGED <<mac, damaged>>,
         Len(file') \in Nat, Len(file) <= Len(file'),
         \A t \in 1..Len(file) : file'[t] = file[t]
  PROVE  IsLayout(frames)' /\ HoldsFrames(frames)' /\ DamageInv(frames)'
<1>1. /\ IsLayout(frames) /\ IsLayout(frames)' /\ EndOf(frames) <= Len(file)
      /\ \A payload, index : MakeFrame(payload, index)' = MakeFrame(payload, index)
  BY SameKey DEF LayoutInv, HoldsFrames
<1>2. /\ Len(file) \in Nat /\ EndOf(frames) \in Nat /\ DOMAIN frames = 1..Len(frames)
  BY <1>1, LayoutFacts DEF TypeOK
<1>3. \A i \in DOMAIN frames : \A k \in 1..SizeOf(frames[i].payload) :
        StartOf(frames, i) + k \in 1..Len(file)
  <2> SUFFICES ASSUME NEW i \in 1..Len(frames), NEW k \in 1..SizeOf(frames[i].payload)
               PROVE  StartOf(frames, i) + k \in 1..Len(file)
    BY <1>2
  <2>1. /\ StartOf(frames, i) \in Nat /\ Len(frames[i].payload) \in Nat
        /\ SizeOf(frames[i].payload) = Len(frames[i].payload) + 4
        /\ frames[i].byteOffset = StartOf(frames, i) + Len(frames[i].payload) + 4
        /\ frames[i].byteOffset <= EndOf(frames)
    BY <1>1, LayoutFacts, LayoutOrder
  <2> QED
    BY <1>1, <1>2, <2>1
<1>4. HoldsFrames(frames)'
  <2>1. EndOf(frames) <= Len(file')
    BY <1>1, <1>2
  <2>2. \A i \in DOMAIN frames : \A k \in 1..SizeOf(frames[i].payload) :
          StartOf(frames, i) + k # damaged =>
            file'[StartOf(frames, i) + k] = MakeFrame(frames[i].payload, i)[k]
    BY <1>3 DEF LayoutInv, HoldsFrames
  <2> QED
    BY <1>1, <2>1, <2>2 DEF HoldsFrames
<1>5. DamageInv(frames)'
  <2> SUFFICES ASSUME damaged # 0 PROVE DamageInv(frames)'
    BY DEF DamageInv
  <2>1. /\ file[damaged] \in Bytes
        /\ \E i \in DOMAIN frames : \E k \in 1..SizeOf(frames[i].payload) :
             /\ damaged = StartOf(frames, i) + k
             /\ file[damaged] # MakeFrame(frames[i].payload, i)[k]
    BY DEF LayoutInv, DamageInv
  <2>2. damaged \in 1..Len(file)
    BY <1>3, <2>1
  <2>3. file'[damaged] = file[damaged]
    BY <2>2
  <2> QED
    BY <1>1, <2>1, <2>3 DEF DamageInv
<1> QED
  BY <1>1, <1>4, <1>5

\* A file that is cut behind frames without damage holds them.
LEMMA CutFile ==
  ASSUME TypeOK, NEW frames, IsLayout(frames), EndOf(frames) <= Len(file),
         \A i \in 1..Len(frames) : \A k \in 1..SizeOf(frames[i].payload) :
           file[StartOf(frames, i) + k] = MakeFrame(frames[i].payload, i)[k],
         mac' = mac, damaged' = 0, unwritten' = FALSE, used' = used,
         file' = SubSeq(file, 1, EndOf(frames)),
         handle' = [open |-> TRUE, count |-> Len(frames), size |-> EndOf(frames)],
         written' = Entries(frames)
  PROVE  IInv'
<1>1. /\ Len(frames) \in Nat /\ EndOf(frames) \in Nat /\ DOMAIN frames = 1..Len(frames)
      /\ file \in Seq([value : 0..(Radix - 1), of : Seq(Covered)]) /\ Len(file) \in Nat
  BY LayoutFacts DEF TypeOK
<1>2. /\ file' \in Seq([value : 0..(Radix - 1), of : Seq(Covered)])
      /\ Len(file') = EndOf(frames)
      /\ \A t \in 1..EndOf(frames) : file'[t] = file[t]
  <2> DEFINE B == [value : 0..(Radix - 1), of : Seq(Covered)]
             e == EndOf(frames)
  <2>1. file \in Seq(B) /\ e \in Nat /\ e <= Len(file)
    BY <1>1
  <2> HIDE DEF B, e
  <2>2. /\ SubSeq(file, 1, e) \in Seq(B) /\ Len(SubSeq(file, 1, e)) = e
        /\ \A t \in 1..e : SubSeq(file, 1, e)[t] = file[t]
    BY <2>1
  <2> QED
    BY <2>2 DEF B, e
<1>3. /\ IsLayout(frames)'
      /\ \A payload, index : MakeFrame(payload, index)' = MakeFrame(payload, index)
  BY SameKey
<1>4. HoldsFrames(frames)'
  <2>1. ASSUME NEW i \in 1..Len(frames), NEW k \in 1..SizeOf(frames[i].payload)
        PROVE  file'[StartOf(frames, i) + k] = MakeFrame(frames[i].payload, i)[k]
    <3>1. /\ StartOf(frames, i) \in Nat /\ Len(frames[i].payload) \in Nat
          /\ SizeOf(frames[i].payload) = Len(frames[i].payload) + 4
          /\ frames[i].byteOffset = StartOf(frames, i) + Len(frames[i].payload) + 4
          /\ frames[i].byteOffset <= EndOf(frames) /\ EndOf(frames) \in Nat
      BY LayoutFacts, LayoutOrder
    <3>2. StartOf(frames, i) + k \in 1..EndOf(frames)
      BY <3>1
    <3> QED
      BY <1>2, <3>2
  <2>2. EndOf(frames) <= Len(file')
    BY <1>1, <1>2
  <2>3. \A i \in DOMAIN frames : \A k \in 1..SizeOf(frames[i].payload) :
          StartOf(frames, i) + k # damaged' =>
            file'[StartOf(frames, i) + k] = MakeFrame(frames[i].payload, i)'[k]
    BY <1>1, <1>3, <2>1
  <2> QED
    BY <2>2, <2>3 DEF HoldsFrames
<1>5. DamageInv(frames)' /\ TailInv(frames)' /\ HandleInv(frames)' /\ WrittenInv(frames)'
  BY <1>2 DEF DamageInv, TailInv, HandleInv, WrittenInv, Entries
<1>6. LayoutInv(frames)'
  BY <1>3, <1>4, <1>5 DEF LayoutInv
<1>7. TypeOK'
  <2>1. \A frame \in written' : /\ frame.index \in Nat /\ frame.byteOffset \in 0..Len(file')
                                /\ frame.payload \in Seq(Bytes)
    <3>1. EndOf(frames) \in Nat /\ EndOf(frames) <= EndOf(frames) /\ Len(file') = EndOf(frames)
      BY <1>1, <1>2
    <3> QED
      BY <3>1, WrittenTypes
  <2>2. handle' \in [open : BOOLEAN, count : Nat, size : 0..Len(file')]
    BY <1>1, <1>2
  <2>3. mac' \in BOOLEAN /\ unwritten' \in BOOLEAN /\ damaged' \in 0..Len(file')
        /\ used' \in [crashes : 0..MaxCrashes, damage : 0..MaxDamage]
    <3>1. EndOf(frames) \in Nat /\ Len(file') = EndOf(frames)
      BY <1>1, <1>2
    <3>2. 0 \in 0..Len(file')
      BY <3>1
    <3>3. /\ mac \in BOOLEAN
          /\ used \in [crashes : 0..MaxCrashes, damage : 0..MaxDamage]
      BY DEF TypeOK
    <3> QED
      BY <3>2, <3>3
  <2>4. file' \in Seq([value : 0..(Radix - 1), of : Seq(Covered)])
    BY <1>2
  <2> QED
    BY <2>1, <2>2, <2>3, <2>4 DEF TypeOK
<1>8. frames \in Seq(Frame)
  BY DEF IsLayout
<1> QED
  BY <1>6, <1>7, <1>8 DEF IInv

\* getOrOpenJournal leaves the frames that its scan visited, and nothing behind them.
LEMMA OpenStep ==
  ASSUME IInv, Open
  PROVE  IInv'
<1> DEFINE scan == ScanJournal(file)
<1>1. /\ handle' = [open |-> TRUE, count |-> Len(scan.frames), size |-> scan.size]
      /\ file' = SubSeq(file, 1, scan.size)
      /\ written' = {frame \in written : Undamaged(frame)}
      /\ damaged' = IF damaged > scan.size THEN 0 ELSE damaged
      /\ unwritten' = FALSE /\ mac' = mac /\ used' = used
  BY DEF Open
<1> HIDE DEF scan
<1>2. TypeOK /\ Len(file) \in Nat
  BY DEF IInv, TypeOK
<1>3. PICK frames : LayoutInv(frames) /\ NoneBehind(frames)
  BY WholeLayout
<1>4. /\ IsLayout(frames) /\ EndOf(frames) <= Len(file) /\ DOMAIN frames = 1..Len(frames)
      /\ EndOf(frames) \in Nat /\ Len(frames) \in Nat
  BY <1>3, LayoutFacts DEF LayoutInv, HoldsFrames
<1>5. CASE damaged = 0
  <2>1. scan.frames = frames /\ scan.size = EndOf(frames)
    BY <1>2, <1>3, <1>5, ScanUndamaged DEF scan
  <2>2. damaged' = 0
    BY <1>1, <1>5
  <2>3. written' = Entries(frames)
    BY <1>1, <1>3, <1>5 DEF LayoutInv, WrittenInv, Entries, Undamaged
  <2>4. \A i \in 1..Len(frames) : \A k \in 1..SizeOf(frames[i].payload) :
          file[StartOf(frames, i) + k] = MakeFrame(frames[i].payload, i)[k]
    <3> SUFFICES ASSUME NEW i \in 1..Len(frames), NEW k \in 1..SizeOf(frames[i].payload)
                 PROVE  file[StartOf(frames, i) + k] = MakeFrame(frames[i].payload, i)[k]
      OBVIOUS
    <3>1. StartOf(frames, i) \in Nat /\ SizeOf(frames[i].payload) \in Nat
      <4>1. /\ StartOf(frames, i) \in Nat /\ Len(frames[i].payload) \in Nat
            /\ SizeOf(frames[i].payload) = Len(frames[i].payload) + 4
        BY <1>4, LayoutFacts
      <4> QED
        BY <4>1
    <3>2. StartOf(frames, i) + k # damaged
      BY <1>5, <3>1
    <3> QED
      BY <1>3, <1>4, <3>2 DEF LayoutInv, HoldsFrames
  <2> QED
    BY <1>1, <1>2, <1>4, <2>1, <2>2, <2>3, <2>4, CutFile
<1>6. CASE damaged # 0
  <2>1. PICK i \in 1..Len(frames) : \E k \in 1..SizeOf(frames[i].payload) :
          /\ damaged = StartOf(frames, i) + k
          /\ file[damaged] # MakeFrame(frames[i].payload, i)[k]
    BY <1>3, <1>6, DamageIsIn
  <2>2. PICK k \in 1..SizeOf(frames[i].payload) :
          /\ damaged = StartOf(frames, i) + k
          /\ file[damaged] # MakeFrame(frames[i].payload, i)[k]
    BY <2>1
  <2> DEFINE front == SubSeq(frames, 1, i - 1)
  <2>3. scan.frames = front /\ scan.size = StartOf(frames, i)
    BY <1>2, <1>3, <2>2, ScanDamaged DEF scan
  <2>4. written' = Entries(front)
    BY <1>1, <1>3, <2>2, FrontIsUndamaged
  <2>5. /\ IsLayout(front) /\ Len(front) = i - 1 /\ EndOf(front) = StartOf(frames, i)
        /\ \A j \in 1..(i - 1) : /\ front[j] = frames[j] /\ j \in 1..Len(frames)
                                 /\ StartOf(front, j) = StartOf(frames, j)
    BY <1>4, LayoutCut
  <2> HIDE DEF front
  <2>6. /\ StartOf(frames, i) \in Nat /\ k \in Nat /\ k > 0
        /\ StartOf(frames, i) <= frames[i].byteOffset /\ frames[i].byteOffset \in Nat
        /\ frames[i].byteOffset <= EndOf(frames)
    <3>1. /\ StartOf(frames, i) \in Nat /\ Len(frames[i].payload) \in Nat
          /\ SizeOf(frames[i].payload) = Len(frames[i].payload) + 4
          /\ frames[i].byteOffset = StartOf(frames, i) + Len(frames[i].payload) + 4
          /\ frames[i].byteOffset <= EndOf(frames)
      BY <1>4, LayoutFacts, LayoutOrder
    <3> QED
      BY <3>1
  <2>7. damaged' = 0
    BY <1>1, <2>2, <2>3, <2>6
  <2>8. EndOf(front) <= Len(file)
    BY <1>2, <1>4, <2>5, <2>6
  <2>9. \A j \in 1..Len(front) : \A l \in 1..SizeOf(front[j].payload) :
          file[StartOf(front, j) + l] = MakeFrame(front[j].payload, j)[l]
    <3> SUFFICES ASSUME NEW j \in 1..(i - 1), NEW l \in 1..SizeOf(frames[j].payload)
                 PROVE  file[StartOf(frames, j) + l] = MakeFrame(frames[j].payload, j)[l]
      BY <2>5
    <3>1. j \in 1..Len(frames) /\ j < i
      BY <2>5
    <3>2. StartOf(frames, j) + l <= frames[j].byteOffset /\ StartOf(frames, j) \in Nat
          /\ frames[j].byteOffset \in Nat
      <4>1. /\ StartOf(frames, j) \in Nat /\ Len(frames[j].payload) \in Nat
            /\ SizeOf(frames[j].payload) = Len(frames[j].payload) + 4
            /\ frames[j].byteOffset = StartOf(frames, j) + Len(frames[j].payload) + 4
        BY <1>4, <3>1, LayoutFacts
      <4> QED
        BY <4>1
    <3>3. frames[j].byteOffset <= StartOf(frames, i)
      BY <1>4, <3>1, LayoutOrder
    <3>4. StartOf(frames, j) + l # damaged
      BY <2>2, <2>6, <3>2, <3>3
    <3> QED
      BY <1>3, <1>4, <3>1, <3>4 DEF LayoutInv, HoldsFrames
  <2> QED
    BY <1>1, <1>2, <2>3, <2>4, <2>5, <2>7, <2>8, <2>9, CutFile
<1> QED
  BY <1>5, <1>6

\* What an append writes, and where it is then.
LEMMA NextFrameIs ==
  ASSUME IInv, NEW frames, LayoutInv(frames), handle.open, NEW entry \in Payloads, Fits(entry)
  PROVE  LET payload == AsBytes(entry)
             next    == NextFrame(entry)
         IN  /\ payload \in Seq(Bytes) /\ IsPayload(payload) /\ payload # <<>>
             /\ SizeOf(payload) \in Nat /\ Len(frames) + 1 \in Nat
             /\ next.bytes = MakeFrame(payload, Len(frames) + 1)
             /\ next.bytes \in Seq(FileByte) /\ Len(next.bytes) = SizeOf(payload)
             /\ next.at = NextOf(frames, payload)
             /\ EndOf(frames) = Len(file)
             /\ handle.count = Len(frames) /\ handle.size = EndOf(frames)
<1> DEFINE payload == AsBytes(entry)
           frame   == MakeFrame(payload, Len(frames) + 1)
<1>1. /\ EndOf(frames) = Len(file) /\ handle.count = Len(frames) /\ handle.size = EndOf(frames)
      /\ Len(frames) \in Nat /\ Len(frames) + 1 \in Nat
  <2>1. EndOf(frames) = Len(file) /\ handle.count = Len(frames) /\ handle.size = EndOf(frames)
    BY DEF LayoutInv, HandleInv
  <2>2. Len(frames) \in Nat
    BY LayoutFacts DEF LayoutInv
  <2> QED
    BY <2>1, <2>2
<1>2. /\ entry \in Seq(0..(Radix - 1)) /\ entry # <<>> /\ entry[1] # 0
      /\ Len(entry) \in Nat /\ Len(entry) <= MaxPayload
  BY EntriesAreTagged DEF Fits
<1>3. payload \in Seq(Bytes) /\ Len(payload) = Len(entry)
  <2>1. payload = [k \in 1..Len(entry) |-> Byte(entry[k])]
    BY <1>2 DEF AsBytes
  <2>2. \A k \in 1..Len(entry) : Byte(entry[k]) \in Bytes
    <3>0. ASSUME NEW S, NEW s \in Seq(S) PROVE \A k \in 1..Len(s) : s[k] \in S
      OBVIOUS
    <3>1. \A k \in 1..Len(entry) : entry[k] \in 0..(Radix - 1)
      <4>1. entry \in Seq(0..(Radix - 1))
        BY <1>2
      <4> QED
        BY <3>0, <4>1
    <3>2. \A m \in 0..(Radix - 1) : Byte(m) \in Bytes
      BY DEF Byte, Bytes
    <3> QED
      BY <3>1, <3>2
  <2> HIDE DEF payload
  <2>3. /\ payload = [k \in 1..Len(entry) |-> payload[k]]
        /\ \A k \in 1..Len(entry) : payload[k] \in Bytes
    BY <2>1, <2>2
  <2> QED
    BY <1>2, <2>3, TableIsSequence
<1>4. payload # <<>> /\ payload[1].value # 0
  <2>1. 1 \in 1..Len(entry)
    BY <1>2
  <2>2. payload[1] = Byte(entry[1])
    BY <1>2, <2>1 DEF AsBytes
  <2> HIDE DEF payload
  <2>3. payload # <<>>
    BY <1>3, <2>1
  <2> QED
    BY <1>2, <2>2, <2>3 DEF Byte
<1> HIDE DEF payload
<1>5. IsPayload(payload)
  BY <1>2, <1>3, <1>4 DEF IsPayload
<1>6. frame \in Seq(FileByte) /\ Len(frame) = SizeOf(payload)
  BY <1>1, <1>2, <1>3, FrameBytes
<1>7. SizeOf(payload) \in Nat
  BY <1>6
<1>8. /\ NextFrame(entry).bytes = frame
      /\ NextFrame(entry).at = [index |-> Len(frames) + 1,
                                byteOffset |-> EndOf(frames) + Len(frame), payload |-> payload]
  BY <1>1 DEF NextFrame, payload
<1> HIDE DEF frame
<1>9. NextFrame(entry).at = NextOf(frames, payload)
  BY <1>6, <1>8 DEF NextOf
<1> QED
  BY <1>1, <1>3, <1>4, <1>5, <1>6, <1>7, <1>8, <1>9 DEF payload, frame

\* A whole frame is written: it is the next one of the layout.
LEMMA WholeFrame ==
  ASSUME IInv, NEW frames, LayoutInv(frames), EndOf(frames) = Len(file),
         NEW payload, IsPayload(payload), payload # <<>>,
         UNCHANGED <<mac, damaged, unwritten>>,
         file' = file \o MakeFrame(payload, Len(frames) + 1),
         written' = written \cup {NextOf(frames, payload)}
  PROVE  LET more == Append(frames, NextOf(frames, payload))
         IN  /\ IsLayout(more)' /\ HoldsFrames(more)' /\ DamageInv(more)' /\ TailInv(more)'
             /\ WrittenInv(more)' /\ EndOf(more) = Len(file') /\ Len(more) = Len(frames) + 1
             /\ more \in Seq(Frame)
             /\ file' \in Seq(FileByte) /\ Len(file) <= Len(file')
<1> DEFINE next  == NextOf(frames, payload)
           more  == Append(frames, next)
           n     == Len(frames)
           frame == MakeFrame(payload, n + 1)
<1>1. /\ TypeOK /\ IsLayout(frames) /\ n \in Nat /\ n + 1 \in Nat /\ DOMAIN frames = 1..n
      /\ EndOf(frames) \in Nat /\ file \in Seq(FileByte) /\ Len(file) \in Nat
  <2>1. TypeOK /\ IsLayout(frames) /\ file \in Seq(FileByte)
    BY DEF IInv, TypeOK, LayoutInv, FileByte
  <2>2. n \in Nat /\ DOMAIN frames = 1..n /\ EndOf(frames) \in Nat
    BY <2>1, LayoutFacts
  <2> QED
    BY <2>1, <2>2
<1>2. frame \in Seq(FileByte) /\ Len(frame) = SizeOf(payload)
  BY <1>1, FrameBytes DEF IsPayload
<1>3. /\ file' \in Seq(FileByte) /\ Len(file') = Len(file) + SizeOf(payload)
      /\ SizeOf(payload) \in Nat
      /\ \A t \in 1..Len(file) : file'[t] = file[t]
      /\ \A k \in 1..SizeOf(payload) : file'[Len(file) + k] = frame[k]
  <2> HIDE DEF frame
  <2>1. file' = file \o frame /\ file \in Seq(FileByte)
    BY <1>1 DEF frame
  <2>2. ASSUME NEW s \in Seq(FileByte), NEW t \in Seq(FileByte)
        PROVE  /\ s \o t \in Seq(FileByte) /\ Len(t) \in Nat /\ Len(s \o t) = Len(s) + Len(t)
               /\ \A k \in 1..Len(s) : (s \o t)[k] = s[k]
               /\ \A k \in 1..Len(t) : (s \o t)[Len(s) + k] = t[k]
    BY Concatenated
  <2>a. /\ file \o frame \in Seq(FileByte) /\ Len(frame) \in Nat
        /\ Len(file \o frame) = Len(file) + Len(frame)
        /\ \A t \in 1..Len(file) : (file \o frame)[t] = file[t]
        /\ \A k \in 1..Len(frame) : (file \o frame)[Len(file) + k] = frame[k]
    BY <1>2, <2>1, <2>2
  <2>3. /\ file' \in Seq(FileByte) /\ Len(frame) \in Nat /\ Len(file') = Len(file) + Len(frame)
        /\ \A t \in 1..Len(file) : file'[t] = file[t]
        /\ \A k \in 1..Len(frame) : file'[Len(file) + k] = frame[k]
    BY <2>1, <2>a
  <2> QED
    BY <1>2, <2>3
<1>4. /\ IsLayout(more) /\ Len(more) = n + 1 /\ DOMAIN more = 1..(n + 1)
      /\ EndOf(more) = EndOf(frames) + SizeOf(payload)
      /\ \A i \in 1..n : more[i] = frames[i] /\ StartOf(more, i) = StartOf(frames, i)
      /\ more[n + 1] = next /\ StartOf(more, n + 1) = EndOf(frames)
      /\ next.payload = payload
  BY <1>1, LayoutAppend DEF NextOf
<1> HIDE DEF next, more, frame
<1>5. Len(file) <= Len(file') /\ Len(file') \in Nat
  BY <1>1, <1>3
<1>6. /\ HoldsFrames(frames)' /\ DamageInv(frames)'
      /\ \A p, index : MakeFrame(p, index)' = MakeFrame(p, index)
      /\ IsLayout(more)'
  BY <1>1, <1>3, <1>4, <1>5, LongerFile, SameKey
<1>7. HoldsFrames(more)'
  <2>1. ASSUME NEW i \in 1..(n + 1), NEW k \in 1..SizeOf(more[i].payload),
               StartOf(more, i) + k # damaged'
        PROVE  file'[StartOf(more, i) + k] = MakeFrame(more[i].payload, i)'[k]
    <3>1. CASE i \in 1..n
      <4>1. \A m \in DOMAIN frames : \A t \in 1..SizeOf(frames[m].payload) :
              StartOf(frames, m) + t # damaged' =>
                file'[StartOf(frames, m) + t] = MakeFrame(frames[m].payload, m)'[t]
        BY <1>6 DEF HoldsFrames
      <4>2. more[i] = frames[i] /\ StartOf(more, i) = StartOf(frames, i) /\ i \in DOMAIN frames
        BY <1>1, <1>4, <3>1
      <4>3. MakeFrame(frames[i].payload, i)' = MakeFrame(frames[i].payload, i)
        BY <1>6
      <4>4. MakeFrame(more[i].payload, i)' = MakeFrame(more[i].payload, i)
        BY <1>6
      <4> QED
        BY <2>1, <4>1, <4>2, <4>3, <4>4
    <3>2. CASE i = n + 1
      <4>1. more[i].payload = payload /\ StartOf(more, i) = Len(file)
        BY <1>4, <3>2
      <4>2. MakeFrame(more[i].payload, i)' = MakeFrame(more[i].payload, i)
        BY <1>6
      <4>3. MakeFrame(more[i].payload, i) = frame
        BY <3>2, <4>1 DEF frame
      <4> QED
        BY <1>3, <2>1, <4>1, <4>2, <4>3
    <3>3. i \in 1..n \/ i = n + 1
      BY <1>1
    <3> QED
      BY <3>1, <3>2, <3>3
  <2>2. EndOf(more) <= Len(file')
    BY <1>3, <1>4, <1>5
  <2> QED
    BY <1>4, <2>1, <2>2 DEF HoldsFrames
<1>8. DamageInv(more)'
  <2> SUFFICES ASSUME damaged' # 0 PROVE DamageInv(more)'
    BY DEF DamageInv
  <2>1. /\ file'[damaged'] \in Bytes
        /\ \E i \in 1..n : \E k \in 1..SizeOf(frames[i].payload) :
             /\ damaged' = StartOf(frames, i) + k
             /\ file'[damaged'] # MakeFrame(frames[i].payload, i)'[k]
    BY <1>1, <1>6 DEF DamageInv
  <2>2. PICK i \in 1..n : \E k \in 1..SizeOf(frames[i].payload) :
             /\ damaged' = StartOf(frames, i) + k
             /\ file'[damaged'] # MakeFrame(frames[i].payload, i)'[k]
    BY <2>1
  <2>3. PICK k \in 1..SizeOf(frames[i].payload) :
             /\ damaged' = StartOf(frames, i) + k
             /\ file'[damaged'] # MakeFrame(frames[i].payload, i)'[k]
    BY <2>2
  <2>4. more[i] = frames[i] /\ StartOf(more, i) = StartOf(frames, i) /\ i \in DOMAIN more
    BY <1>1, <1>4, <2>2
  <2>5. /\ MakeFrame(frames[i].payload, i)' = MakeFrame(frames[i].payload, i)
        /\ MakeFrame(more[i].payload, i)' = MakeFrame(more[i].payload, i)
    BY <1>6
  <2>6. /\ k \in 1..SizeOf(more[i].payload) /\ damaged' = StartOf(more, i) + k
        /\ file'[damaged'] # MakeFrame(more[i].payload, i)'[k]
    BY <2>3, <2>4, <2>5
  <2> QED
    BY <2>1, <2>4, <2>6 DEF DamageInv
<1>9. EndOf(more) = Len(file') /\ TailInv(more)'
  <2>1. EndOf(more) = Len(file')
    BY <1>3, <1>4
  <2> QED
    BY <2>1 DEF TailInv
<1>10. WrittenInv(more)'
  <2>1. written = {frames[i] : i \in {m \in 1..n : IsEntry(frames[m])}}
    BY <1>1 DEF LayoutInv, WrittenInv
  <2>2. IsEntry(next)
    BY <1>4 DEF IsEntry
  <2>3. ASSUME NEW x PROVE x \in written' <=> \E i \in 1..(n + 1) : IsEntry(more[i]) /\ x = more[i]
    <3>1. x \in written' <=> x \in written \/ x = next
      BY DEF next
    <3>2. x \in written <=> \E i \in 1..n : IsEntry(frames[i]) /\ x = frames[i]
      BY <2>1
    <3>3. \A i : i \in 1..(n + 1) <=> i \in 1..n \/ i = n + 1
      BY <1>1
    <3> QED
      BY <1>4, <2>2, <3>1, <3>2, <3>3
  <2>4. written' = {more[i] : i \in {m \in 1..(n + 1) : IsEntry(more[m])}}
    BY <2>3
  <2> QED
    BY <1>4, <2>4 DEF WrittenInv, IsEntry
<1>11. more \in Seq(Frame)
  BY <1>4 DEF IsLayout
<1> QED
  BY <1>3, <1>4, <1>5, <1>6, <1>7, <1>8, <1>9, <1>10, <1>11 DEF more, next, n

\* The records have their types wherever the file holds a layout.
LEMMA TypesOfLayout ==
  ASSUME TypeOK, NEW frames, IsLayout(frames), WrittenInv(frames)', EndOf(frames) <= Len(file'),
         mac' = mac, unwritten' \in BOOLEAN, file' \in Seq(FileByte),
         handle' \in [open : BOOLEAN, count : Nat, size : 0..Len(file')],
         damaged' \in 0..Len(file'),
         used' \in [crashes : 0..MaxCrashes, damage : 0..MaxDamage]
  PROVE  TypeOK'
<1>1. Len(file') \in Nat
  BY DEF FileByte
<1>2. written' = Entries(frames)
  BY DEF WrittenInv, Entries, IsEntry
<1>3. \A frame \in written' : /\ frame.index \in Nat /\ frame.byteOffset \in 0..Len(file')
                              /\ frame.payload \in Seq(Bytes)
  BY <1>1, <1>2, WrittenTypes
<1>4. mac' \in BOOLEAN
  BY DEF TypeOK
<1> QED
  BY <1>3, <1>4 DEF TypeOK, FileByte

\* An empty file holds no frame.
LEMMA InitInv ==
  ASSUME Init
  PROVE  IInv
<1> DEFINE none == <<>>
<1>1. /\ none \in Seq(Frame) /\ DOMAIN none = {} /\ Len(none) = 0
      /\ file = <<>> /\ Len(file) = 0 /\ handle = Closed /\ handle.open = FALSE
      /\ written = {} /\ damaged = 0 /\ EndOf(none) = 0
  BY DEF Init, Closed, EndOf
<1>2. LayoutInv(none)
  <2>1. IsLayout(none) /\ HoldsFrames(none) /\ DamageInv(none) /\ TailInv(none) /\ HandleInv(none)
    BY <1>1 DEF IsLayout, HoldsFrames, DamageInv, TailInv, HandleInv
  <2>2. WrittenInv(none)
    BY <1>1 DEF WrittenInv
  <2> QED
    BY <2>1, <2>2 DEF LayoutInv
<1>3. TypeOK
  <2>1. file \in Seq([value : 0..(Radix - 1), of : Seq(Covered)])
    BY <1>1
  <2>2. handle \in [open : BOOLEAN, count : Nat, size : 0..Len(file)]
    BY <1>1 DEF Closed
  <2>3. /\ mac \in BOOLEAN /\ unwritten \in BOOLEAN /\ damaged \in 0..Len(file)
        /\ used \in [crashes : 0..MaxCrashes, damage : 0..MaxDamage]
    <3>1. mac \in BOOLEAN /\ unwritten \in BOOLEAN
      BY DEF Init
    <3>2. damaged \in 0..Len(file)
      BY <1>1
    <3>3. used = [crashes |-> 0, damage |-> 0] /\ 0 \in 0..MaxCrashes /\ 0 \in 0..MaxDamage
      BY ScanBounds DEF Init
    <3> QED
      BY <3>1, <3>2, <3>3
  <2> QED
    BY <1>1, <2>1, <2>2, <2>3 DEF TypeOK
<1> QED
  BY <1>1, <1>2, <1>3 DEF IInv

\* appendFrame adds a frame to the layout.
LEMMA AppendStep ==
  ASSUME IInv, NEW entry \in Payloads, AppendFrame(entry)
  PROVE  IInv'
<1> DEFINE payload == AsBytes(entry)
           new     == NextFrame(entry)
<1>1. PICK frames \in Seq(Frame) : LayoutInv(frames)
  BY DEF IInv
<1>2. /\ handle.open /\ Fits(entry) /\ TypeOK /\ IsLayout(frames)
      /\ file' = file \o new.bytes /\ written' = written \cup {new.at}
      /\ handle' = [handle EXCEPT !.count = @ + 1, !.size = new.at.byteOffset]
      /\ UNCHANGED <<mac, damaged, unwritten, used>>
  BY <1>1 DEF AppendFrame, IInv, LayoutInv
<1>3. /\ IsPayload(payload) /\ payload # <<>> /\ SizeOf(payload) \in Nat
      /\ new.bytes = MakeFrame(payload, Len(frames) + 1) /\ new.at = NextOf(frames, payload)
      /\ EndOf(frames) = Len(file) /\ handle.count = Len(frames) /\ handle.size = EndOf(frames)
  BY <1>1, <1>2, NextFrameIs
<1> HIDE DEF payload, new
<1> DEFINE more == Append(frames, NextOf(frames, payload))
<1>4. /\ IsLayout(more)' /\ HoldsFrames(more)' /\ DamageInv(more)' /\ TailInv(more)'
      /\ WrittenInv(more)' /\ EndOf(more) = Len(file') /\ Len(more) = Len(frames) + 1
      /\ more \in Seq(Frame)
      /\ file' \in Seq(FileByte) /\ Len(file) <= Len(file')
  BY <1>1, <1>2, <1>3, WholeFrame
<1>5. IsLayout(more) /\ EndOf(more) = EndOf(frames) + SizeOf(payload)
  BY <1>2, <1>3, LayoutAppend
<1> HIDE DEF more
<1>6. /\ Len(file) \in Nat /\ Len(file') \in Nat /\ Len(frames) \in Nat
  BY <1>2, <1>4, LayoutFacts DEF TypeOK, FileByte
<1>7. handle' = [open |-> TRUE, count |-> Len(more), size |-> Len(file')]
  <2>1. new.at.byteOffset = EndOf(more)
    BY <1>3, <1>5 DEF NextOf
  <2>2. handle \in [open : BOOLEAN, count : Nat, size : 0..Len(file)]
    BY <1>2 DEF TypeOK
  <2> QED
    BY <1>2, <1>3, <1>4, <2>1, <2>2
<1>8. HandleInv(more)'
  BY <1>4, <1>7 DEF HandleInv
<1>9. LayoutInv(more)'
  BY <1>4, <1>8 DEF LayoutInv
<1>10. TypeOK'
  <2>1. handle' \in [open : BOOLEAN, count : Nat, size : 0..Len(file')]
    BY <1>4, <1>6, <1>7
  <2>2. /\ unwritten' \in BOOLEAN /\ damaged' \in 0..Len(file')
        /\ used' \in [crashes : 0..MaxCrashes, damage : 0..MaxDamage]
    <3>1. /\ unwritten \in BOOLEAN /\ damaged \in 0..Len(file)
          /\ used \in [crashes : 0..MaxCrashes, damage : 0..MaxDamage]
      BY <1>2 DEF TypeOK
    <3> QED
      BY <1>2, <1>4, <1>6, <3>1
  <2>3. EndOf(more) <= Len(file')
    BY <1>4, <1>6
  <2> QED
    BY <1>2, <1>4, <1>5, <2>1, <2>2, <2>3, TypesOfLayout
<1> QED
  BY <1>4, <1>9, <1>10 DEF IInv

\* Whatever is written behind the frames, they stay as they are.
LEMMA AddedTail ==
  ASSUME TypeOK, NEW frames, LayoutInv(frames), EndOf(frames) = Len(file),
         NEW tail, tail \in Seq(FileByte), file' = file \o tail, UNCHANGED <<mac, damaged, written>>
  PROVE  /\ IsLayout(frames)' /\ HoldsFrames(frames)' /\ DamageInv(frames)' /\ WrittenInv(frames)'
         /\ Len(file') = Len(file) + Len(tail) /\ file' \in Seq(FileByte)
         /\ \A k \in 1..Len(tail) : file'[EndOf(frames) + k] = tail[k]
         /\ Len(file) \in Nat /\ Len(tail) \in Nat
<1>1. file \in Seq(FileByte) /\ Len(file) \in Nat /\ Len(tail) \in Nat
  BY DEF TypeOK, FileByte
<1>2. ASSUME NEW s \in Seq(FileByte), NEW t \in Seq(FileByte)
      PROVE  /\ s \o t \in Seq(FileByte) /\ Len(s \o t) = Len(s) + Len(t)
             /\ \A k \in 1..Len(s) : (s \o t)[k] = s[k]
             /\ \A k \in 1..Len(t) : (s \o t)[Len(s) + k] = t[k]
  BY Concatenated
<1>3. /\ file \o tail \in Seq(FileByte) /\ Len(file \o tail) = Len(file) + Len(tail)
      /\ \A k \in 1..Len(file) : (file \o tail)[k] = file[k]
      /\ \A k \in 1..Len(tail) : (file \o tail)[Len(file) + k] = tail[k]
  BY <1>1, <1>2
<1>4. /\ file' \in Seq(FileByte) /\ Len(file') = Len(file) + Len(tail)
      /\ \A k \in 1..Len(file) : file'[k] = file[k]
      /\ \A k \in 1..Len(tail) : file'[EndOf(frames) + k] = tail[k]
  BY <1>3
<1>5. Len(file') \in Nat /\ Len(file) <= Len(file')
  BY <1>1, <1>4
<1>6. IsLayout(frames)' /\ HoldsFrames(frames)' /\ DamageInv(frames)'
  BY <1>4, <1>5, LongerFile
<1>7. WrittenInv(frames)'
  <2>1. WrittenInv(frames)
    BY DEF LayoutInv
  <2> QED
    BY <2>1 DEF WrittenInv, IsEntry
<1> QED
  BY <1>1, <1>4, <1>6, <1>7

\* An append that is interrupted leaves a torn frame, a whole one, or space.
LEMMA CrashStep ==
  ASSUME IInv, NEW entry \in Payloads, CrashInAppend(entry)
  PROVE  IInv'
<1> DEFINE payload == AsBytes(entry)
           new     == NextFrame(entry)
<1>1. PICK frames \in Seq(Frame) : LayoutInv(frames)
  BY DEF IInv
<1>2. /\ handle.open /\ Fits(entry) /\ TypeOK /\ IsLayout(frames) /\ WrittenInv(frames)
      /\ handle' = Closed /\ UNCHANGED <<mac, damaged>>
      /\ used.crashes < MaxCrashes /\ used' = [used EXCEPT !.crashes = @ + 1]
  BY <1>1 DEF CrashInAppend, IInv, LayoutInv
<1>3. \/ /\ \E n \in 0..(Len(new.bytes) - 1) : file' = file \o SubSeq(new.bytes, 1, n)
         /\ UNCHANGED <<written, unwritten>>
      \/ /\ file' = file \o new.bytes /\ written' = written \cup {new.at} /\ UNCHANGED unwritten
      \/ /\ file' = file \o [k \in DOMAIN new.bytes |-> Byte(0)]
         /\ unwritten' = TRUE /\ UNCHANGED written
  BY DEF CrashInAppend
<1>4. /\ IsPayload(payload) /\ payload # <<>> /\ payload \in Seq(Bytes) /\ SizeOf(payload) \in Nat
      /\ new.bytes = MakeFrame(payload, Len(frames) + 1) /\ new.at = NextOf(frames, payload)
      /\ new.bytes \in Seq(FileByte) /\ Len(new.bytes) = SizeOf(payload)
      /\ EndOf(frames) = Len(file)
  BY <1>1, <1>2, NextFrameIs
<1> HIDE DEF payload, new
<1>5. used' \in [crashes : 0..MaxCrashes, damage : 0..MaxDamage]
  <2>1. used \in [crashes : 0..MaxCrashes, damage : 0..MaxDamage]
    BY <1>2 DEF TypeOK
  <2> QED
    BY <1>2, <2>1, ScanBounds
<1>6. ASSUME NEW left \in Seq(Frame), IsLayout(left), IsLayout(left)', HoldsFrames(left)',
             DamageInv(left)', TailInv(left)', WrittenInv(left)',
             file' \in Seq(FileByte), Len(file) <= Len(file'), unwritten' \in BOOLEAN
      PROVE  IInv'
  <2>1. HandleInv(left)'
    BY <1>2 DEF HandleInv, Closed
  <2>2. LayoutInv(left)'
    BY <1>6, <2>1 DEF LayoutInv
  <2>3. EndOf(left) <= Len(file')
    BY <1>6 DEF HoldsFrames
  <2>4. Len(file) \in Nat /\ Len(file') \in Nat /\ damaged \in 0..Len(file)
    BY <1>2, <1>6 DEF TypeOK, FileByte
  <2>5. /\ handle' \in [open : BOOLEAN, count : Nat, size : 0..Len(file')]
        /\ damaged' \in 0..Len(file')
    BY <1>2, <1>6, <2>4 DEF Closed
  <2>6. TypeOK'
    BY <1>2, <1>5, <1>6, <2>3, <2>5, TypesOfLayout
  <2> QED
    BY <2>2, <2>6 DEF IInv
<1>7. ASSUME NEW n \in 0..(Len(new.bytes) - 1), file' = file \o SubSeq(new.bytes, 1, n),
             UNCHANGED <<written, unwritten>>
      PROVE  IInv'
  <2> DEFINE tail == SubSeq(new.bytes, 1, n)
  <2>1. ASSUME NEW s \in Seq(FileByte), NEW m \in 0..(Len(s) - 1)
        PROVE  /\ SubSeq(s, 1, m) \in Seq(FileByte) /\ Len(SubSeq(s, 1, m)) = m
               /\ \A k \in 1..m : SubSeq(s, 1, m)[k] = s[k]
    OBVIOUS
  <2>2. /\ tail \in Seq(FileByte) /\ Len(tail) = n /\ \A k \in 1..n : tail[k] = new.bytes[k]
    BY <1>4, <1>7, <2>1
  <2>3. file' = file \o tail
    BY <1>7
  <2> HIDE DEF tail
  <2>4. /\ IsLayout(frames)' /\ HoldsFrames(frames)' /\ DamageInv(frames)' /\ WrittenInv(frames)'
        /\ Len(file') = Len(file) + n /\ file' \in Seq(FileByte)
        /\ \A k \in 1..n : file'[EndOf(frames) + k] = tail[k]
        /\ Len(file) \in Nat /\ n \in Nat
    <3>1. tail \in Seq(FileByte) /\ UNCHANGED <<mac, damaged, written>>
      BY <1>2, <1>7, <2>2
    <3>2. /\ IsLayout(frames)' /\ HoldsFrames(frames)' /\ DamageInv(frames)' /\ WrittenInv(frames)'
          /\ Len(file') = Len(file) + Len(tail) /\ file' \in Seq(FileByte)
          /\ \A k \in 1..Len(tail) : file'[EndOf(frames) + k] = tail[k]
          /\ Len(file) \in Nat /\ Len(tail) \in Nat
      BY <1>1, <1>2, <1>4, <2>3, <3>1, AddedTail
    <3> QED
      BY <2>2, <3>2
  <2>5. TailInv(frames)'
    <3>1. Len(file') < EndOf(frames) + SizeOf(payload) /\ Len(file') - EndOf(frames) = n
      BY <1>4, <1>7, <2>4
    <3>2. \A k \in 1..n : file'[EndOf(frames) + k] = MakeFrame(payload, Len(frames) + 1)[k]
      BY <1>4, <2>2, <2>4
    <3>3. /\ \A p, index : MakeFrame(p, index)' = MakeFrame(p, index)
          /\ IsPayload(payload)'
      BY <1>2, <1>4, SameKey
    <3>4. TornFrame(frames)'
      BY <1>4, <3>1, <3>2, <3>3 DEF TornFrame
    <3> QED
      BY <3>4 DEF TailInv
  <2>6. Len(file) <= Len(file') /\ unwritten' \in BOOLEAN
    BY <1>2, <1>7, <2>4 DEF TypeOK
  <2> QED
    BY <1>2, <1>6, <2>4, <2>5, <2>6
<1>8. ASSUME file' = file \o new.bytes, written' = written \cup {new.at}, UNCHANGED unwritten
      PROVE  IInv'
  <2> DEFINE more == Append(frames, NextOf(frames, payload))
  <2>1. /\ IsLayout(more)' /\ HoldsFrames(more)' /\ DamageInv(more)' /\ TailInv(more)'
        /\ WrittenInv(more)' /\ more \in Seq(Frame)
        /\ file' \in Seq(FileByte) /\ Len(file) <= Len(file')
    BY <1>1, <1>2, <1>4, <1>8, WholeFrame
  <2>2. IsLayout(more)
    BY <1>2, <1>4, LayoutAppend
  <2>3. unwritten' \in BOOLEAN
    BY <1>2, <1>8 DEF TypeOK
  <2> HIDE DEF more
  <2> QED
    BY <1>6, <2>1, <2>2, <2>3
<1>9. ASSUME file' = file \o [k \in DOMAIN new.bytes |-> Byte(0)], unwritten' = TRUE,
             UNCHANGED written
      PROVE  IInv'
  <2> DEFINE tail == [k \in DOMAIN new.bytes |-> Byte(0)]
  <2>1. /\ tail \in Seq(FileByte) /\ Len(tail) = SizeOf(payload)
        /\ \A k \in 1..SizeOf(payload) : tail[k] = Byte(0)
    <3>1. Byte(0) \in FileByte
      <4>1. 0 \in 0..(Radix - 1)
        BY ScanBounds
      <4> QED
        BY <4>1, ByteTypes DEF Byte, Bytes
    <3>2. DOMAIN new.bytes = 1..SizeOf(payload)
      BY <1>4
    <3>3. tail = [k \in 1..SizeOf(payload) |-> Byte(0)]
      BY <3>2
    <3> HIDE DEF tail
    <3>4. /\ tail = [k \in 1..SizeOf(payload) |-> tail[k]]
          /\ \A k \in 1..SizeOf(payload) : tail[k] \in FileByte /\ tail[k] = Byte(0)
      BY <3>1, <3>3
    <3> QED
      BY <1>4, <3>4, TableIsSequence
  <2>2. file' = file \o tail
    BY <1>9
  <2> HIDE DEF tail
  <2>3. /\ IsLayout(frames)' /\ HoldsFrames(frames)' /\ DamageInv(frames)' /\ WrittenInv(frames)'
        /\ Len(file') = Len(file) + Len(tail) /\ file' \in Seq(FileByte)
        /\ \A k \in 1..Len(tail) : file'[EndOf(frames) + k] = tail[k]
        /\ Len(file) \in Nat /\ Len(tail) \in Nat
    <3>1. tail \in Seq(FileByte) /\ UNCHANGED <<mac, damaged, written>>
      BY <1>2, <1>9, <2>1
    <3> QED
      BY <1>1, <1>2, <1>4, <2>2, <3>1, AddedTail
  <2>4. TailInv(frames)'
    <3>1. Len(file') - EndOf(frames) = SizeOf(payload)
      BY <1>4, <2>1, <2>3
    <3>2. \A k \in 1..(Len(file') - EndOf(frames)) : file'[EndOf(frames) + k] = Byte(0)
      BY <2>1, <2>3, <3>1
    <3>3. TornSpace(frames)'
      BY <1>9, <3>2 DEF TornSpace
    <3> QED
      BY <3>3 DEF TailInv
  <2>5. Len(file) <= Len(file') /\ unwritten' \in BOOLEAN
    BY <1>9, <2>3
  <2> QED
    BY <1>2, <1>6, <2>3, <2>4, <2>5
<1> QED
  BY <1>3, <1>7, <1>8, <1>9

\* closeJournal, and a step of nothing: the file stays, the handle stays or is closed.
LEMMA CloseStep ==
  ASSUME IInv, UNCHANGED <<mac, file, written, damaged, unwritten, used>>,
         handle' = handle \/ handle' = Closed
  PROVE  IInv'
<1>1. PICK frames \in Seq(Frame) : LayoutInv(frames)
  BY DEF IInv
<1>2. TypeOK /\ file \in Seq(FileByte) /\ Len(file) \in Nat
  BY DEF IInv, TypeOK, FileByte
<1>3. /\ IsLayout(frames) /\ HoldsFrames(frames) /\ TailInv(frames) /\ HandleInv(frames)
      /\ WrittenInv(frames) /\ EndOf(frames) <= Len(file)
  BY <1>1 DEF LayoutInv, HoldsFrames
<1>4. IsLayout(frames)' /\ HoldsFrames(frames)' /\ DamageInv(frames)'
  BY <1>1, <1>2, LongerFile
<1>5. TailInv(frames)'
  <2>1. \A p, index : MakeFrame(p, index)' = MakeFrame(p, index)
    BY SameKey
  <2>2. \A p : IsPayload(p)' <=> IsPayload(p)
    BY SameKey
  <2>3. CASE TornFrame(frames)
    <3>1. TornFrame(frames)'
      BY <2>1, <2>2, <2>3 DEF TornFrame
    <3> QED
      BY <3>1 DEF TailInv
  <2>4. CASE TornSpace(frames)
    BY <2>4 DEF TailInv, TornSpace
  <2>5. CASE EndOf(frames) = Len(file)
    BY <2>5 DEF TailInv
  <2> QED
    BY <1>3, <2>3, <2>4, <2>5 DEF TailInv
<1>6. HandleInv(frames)' /\ WrittenInv(frames)'
  BY <1>3 DEF HandleInv, WrittenInv, IsEntry, Closed
<1>7. LayoutInv(frames)'
  BY <1>4, <1>5, <1>6 DEF LayoutInv
<1>8. TypeOK'
  <2>1. /\ handle \in [open : BOOLEAN, count : Nat, size : 0..Len(file)]
        /\ Closed \in [open : BOOLEAN, count : Nat, size : 0..Len(file)]
    BY <1>2 DEF TypeOK, Closed
  <2>2. handle' \in [open : BOOLEAN, count : Nat, size : 0..Len(file')]
    BY <2>1
  <2>3. /\ unwritten' \in BOOLEAN /\ damaged' \in 0..Len(file')
        /\ used' \in [crashes : 0..MaxCrashes, damage : 0..MaxDamage]
    BY <1>2 DEF TypeOK
  <2> QED
    BY <1>2, <1>3, <1>6, <2>2, <2>3, TypesOfLayout
<1> QED
  BY <1>1, <1>7, <1>8 DEF IInv

\* A byte within the frames changes: the layout is as before, but for that byte.
LEMMA DamageStep ==
  ASSUME IInv, NEW k \in DOMAIN file, NEW byte \in Bytes, Damage(k, byte)
  PROVE  IInv'
<1>1. PICK frames \in Seq(Frame) : LayoutInv(frames)
  BY DEF IInv
<1>2. /\ TypeOK /\ file \in Seq(FileByte) /\ Len(file) \in Nat /\ k \in 1..Len(file)
  BY DEF IInv, TypeOK, FileByte
<1>3. /\ IsLayout(frames) /\ HoldsFrames(frames) /\ TailInv(frames) /\ HandleInv(frames)
      /\ WrittenInv(frames) /\ EndOf(frames) <= Len(file)
  BY <1>1 DEF LayoutInv, HoldsFrames
<1>4. /\ used.damage < MaxDamage /\ damaged = 0 /\ used' = [used EXCEPT !.damage = @ + 1]
      /\ byte # file[k] /\ file' = [file EXCEPT ![k] = byte] /\ damaged' = k
      /\ UNCHANGED <<mac, handle, written, unwritten>>
  BY DEF Damage
<1>5. PICK frame \in written : k <= frame.byteOffset
  BY DEF Damage
<1>6. /\ EndOf(frames) \in Nat /\ Len(frames) \in Nat /\ DOMAIN frames = 1..Len(frames)
  BY <1>3, LayoutFacts
<1>7. k \in 1..EndOf(frames)
  <2>1. PICK i \in 1..Len(frames) : frame = frames[i]
    BY <1>3, <1>6 DEF WrittenInv
  <2>2. frames[i].byteOffset <= EndOf(frames) /\ frames[i].byteOffset \in Nat
    BY <1>3, LayoutFacts, LayoutOrder
  <2> QED
    BY <1>2, <1>5, <1>6, <2>1, <2>2
<1>8. /\ file' \in Seq(FileByte) /\ Len(file') = Len(file) /\ file'[k] = byte
      /\ \A t \in 1..Len(file) : t # k => file'[t] = file[t]
  <2>1. ASSUME NEW S, NEW s \in Seq(S), NEW m \in 1..Len(s), NEW x \in S
        PROVE  /\ [s EXCEPT ![m] = x] \in Seq(S) /\ Len([s EXCEPT ![m] = x]) = Len(s)
               /\ [s EXCEPT ![m] = x][m] = x
               /\ \A t \in 1..Len(s) : t # m => [s EXCEPT ![m] = x][t] = s[t]
    OBVIOUS
  <2>2. byte \in FileByte
    BY ByteTypes
  <2>3. /\ [file EXCEPT ![k] = byte] \in Seq(FileByte)
        /\ Len([file EXCEPT ![k] = byte]) = Len(file) /\ [file EXCEPT ![k] = byte][k] = byte
        /\ \A t \in 1..Len(file) : t # k => [file EXCEPT ![k] = byte][t] = file[t]
    BY <1>2, <2>1, <2>2
  <2> QED
    BY <1>4, <2>3
<1>9. /\ \A p, index : MakeFrame(p, index)' = MakeFrame(p, index)
      /\ \A p : IsPayload(p)' <=> IsPayload(p)
      /\ IsLayout(frames)'
  BY <1>3, <1>4, SameKey
<1>10. \A i \in 1..Len(frames) : \A t \in 1..SizeOf(frames[i].payload) :
         /\ StartOf(frames, i) + t \in 1..Len(file)
         /\ file[StartOf(frames, i) + t] = MakeFrame(frames[i].payload, i)[t]
  <2> SUFFICES ASSUME NEW i \in 1..Len(frames), NEW t \in 1..SizeOf(frames[i].payload)
               PROVE  /\ StartOf(frames, i) + t \in 1..Len(file)
                      /\ file[StartOf(frames, i) + t] = MakeFrame(frames[i].payload, i)[t]
    OBVIOUS
  <2>1. /\ StartOf(frames, i) \in Nat /\ Len(frames[i].payload) \in Nat
        /\ SizeOf(frames[i].payload) = Len(frames[i].payload) + 4
        /\ frames[i].byteOffset = StartOf(frames, i) + Len(frames[i].payload) + 4
        /\ frames[i].byteOffset <= EndOf(frames)
    BY <1>3, LayoutFacts, LayoutOrder
  <2>2. StartOf(frames, i) + t \in 1..Len(file) /\ StartOf(frames, i) + t # damaged
    BY <1>2, <1>3, <1>4, <1>6, <2>1
  <2> QED
    BY <1>3, <1>6, <2>2 DEF HoldsFrames
<1>11. HoldsFrames(frames)'
  <2>1. \A i \in DOMAIN frames : \A t \in 1..SizeOf(frames[i].payload) :
          StartOf(frames, i) + t # k =>
            file'[StartOf(frames, i) + t] = MakeFrame(frames[i].payload, i)[t]
    BY <1>6, <1>8, <1>10
  <2>2. EndOf(frames) <= Len(file')
    BY <1>3, <1>8
  <2>3. \A i \in DOMAIN frames : \A t \in 1..SizeOf(frames[i].payload) :
          StartOf(frames, i) + t # damaged' =>
            file'[StartOf(frames, i) + t] = MakeFrame(frames[i].payload, i)'[t]
    BY <1>4, <1>9, <2>1
  <2> QED
    BY <2>2, <2>3 DEF HoldsFrames
<1>12. DamageInv(frames)'
  <2>1. PICK i \in 1..Len(frames) : \E t \in 1..SizeOf(frames[i].payload) :
          k = StartOf(frames, i) + t
    BY <1>3, <1>7, LayoutCovers
  <2>2. PICK t \in 1..SizeOf(frames[i].payload) : k = StartOf(frames, i) + t
    BY <2>1
  <2>3. file[k] = MakeFrame(frames[i].payload, i)[t]
    BY <1>10, <2>2
  <2>4. file'[damaged'] = byte /\ byte # MakeFrame(frames[i].payload, i)[t]
    BY <1>4, <1>8, <2>3
  <2>5. MakeFrame(frames[i].payload, i)' = MakeFrame(frames[i].payload, i)
    BY <1>9
  <2>6. file'[damaged'] \in Bytes /\ file'[damaged'] # MakeFrame(frames[i].payload, i)'[t]
    BY <2>4, <2>5
  <2>7. damaged' = StartOf(frames, i) + t /\ i \in DOMAIN frames
    BY <1>4, <1>6, <2>2
  <2> QED
    BY <2>2, <2>6, <2>7 DEF DamageInv
<1>13. \A t \in 1..(Len(file) - EndOf(frames)) :
         file'[EndOf(frames) + t] = file[EndOf(frames) + t]
  <2> SUFFICES ASSUME NEW t \in 1..(Len(file) - EndOf(frames))
               PROVE  file'[EndOf(frames) + t] = file[EndOf(frames) + t]
    OBVIOUS
  <2>1. EndOf(frames) + t \in 1..Len(file) /\ EndOf(frames) + t # k
    BY <1>2, <1>6, <1>7
  <2> QED
    BY <1>8, <2>1
<1>14. TailInv(frames)'
  <2>1. CASE TornFrame(frames)
    <3>1. TornFrame(frames)'
      BY <1>8, <1>9, <1>13, <2>1 DEF TornFrame
    <3> QED
      BY <3>1 DEF TailInv
  <2>2. CASE TornSpace(frames)
    BY <1>4, <1>8, <1>13, <2>2 DEF TailInv, TornSpace
  <2>3. CASE EndOf(frames) = Len(file)
    BY <1>8, <2>3 DEF TailInv
  <2> QED
    BY <1>3, <2>1, <2>2, <2>3 DEF TailInv
<1>15. HandleInv(frames)' /\ WrittenInv(frames)'
  BY <1>3, <1>4, <1>8 DEF HandleInv, WrittenInv, IsEntry
<1>16. LayoutInv(frames)'
  BY <1>9, <1>11, <1>12, <1>14, <1>15 DEF LayoutInv
<1>17. TypeOK'
  <2>1. /\ used' \in [crashes : 0..MaxCrashes, damage : 0..MaxDamage]
        /\ unwritten' \in BOOLEAN /\ mac' = mac
        /\ handle' \in [open : BOOLEAN, count : Nat, size : 0..Len(file')]
    <3>1. /\ used \in [crashes : 0..MaxCrashes, damage : 0..MaxDamage]
          /\ unwritten \in BOOLEAN
          /\ handle \in [open : BOOLEAN, count : Nat, size : 0..Len(file)]
      BY <1>2 DEF TypeOK
    <3>2. used.damage + 1 \in 0..MaxDamage
      BY <1>4, <3>1, ScanBounds
    <3> QED
      BY <1>4, <1>8, <3>1, <3>2
  <2>2. damaged' \in 0..Len(file') /\ EndOf(frames) <= Len(file')
    BY <1>2, <1>3, <1>4, <1>8
  <2> QED
    BY <1>2, <1>3, <1>8, <1>15, <2>1, <2>2, TypesOfLayout
<1> QED
  BY <1>1, <1>16, <1>17 DEF IInv

-----------------------------------------------------------------------------
\* The theorems

\* Every state has a layout.
LEMMA Inductive == Spec => []IInv
<1>1. Init => IInv
  BY InitInv
<1>2. IInv /\ [Next]_vars => IInv'
  <2> SUFFICES ASSUME IInv, [Next]_vars PROVE IInv'
    OBVIOUS
  <2>1. CASE Open
    BY <2>1, OpenStep
  <2>2. CASE Close
    BY <2>2, CloseStep DEF Close
  <2>3. CASE \E entry \in Payloads : AppendFrame(entry)
    BY <2>3, AppendStep
  <2>4. CASE \E entry \in Payloads : CrashInAppend(entry)
    BY <2>4, CrashStep
  <2>5. CASE \E k \in DOMAIN file, byte \in Bytes : Damage(k, byte)
    BY <2>5, DamageStep
  <2>6. CASE UNCHANGED vars
    BY <2>6, CloseStep DEF vars
  <2> QED
    BY <2>1, <2>2, <2>3, <2>4, <2>5, <2>6 DEF Next
<1> QED
  BY <1>1, <1>2, PTL DEF Spec

\* TypeOK: the records of journal.log, its handle and its history have their types.
THEOREM FilesAreTyped == Spec => []TypeOK
<1>1. IInv => TypeOK
  BY DEF IInv
<1> QED
  BY <1>1, Inductive, PTL

\* ReadsIntactFrames: whatever was interrupted or damaged, a scan visits the frames in front
\* of the damage, all of them and in order (scanJournal, journal.go:533-534).
THEOREM IntactFramesAreRead == Spec => []ReadsIntactFrames
<1>1. IInv => ReadsIntactFrames
  BY ReadsFront
<1> QED
  BY <1>1, Inductive, PTL

\* CrashRecovered: no number of interrupted appends makes a scan fail, unless space that was
\* not written fails a MAC (tolerable, journal.go:536-537).
THEOREM CrashesAreRecovered == Spec => []CrashRecovered
<1>1. IInv => CrashRecovered
  BY RecoversFromCrash
<1> QED
  BY <1>1, Inductive, PTL

\* BodyDamageReported: a change of a payload or a trailer with anything behind the frame makes
\* the scan fail (journal.go:537-541).
THEOREM DamageIsReported == Spec => []BodyDamageReported
<1>1. IInv => BodyDamageReported
  BY ReportsBodyDamage
<1> QED
  BY <1>1, Inductive, PTL
=============================================================================
