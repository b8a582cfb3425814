----------------------------- MODULE FrameScan -----------------------------
(***************************************************************************)
(* journal.log byte by byte: what makeFrame writes, and what readFrame and *)
(* scanJournal make of a file whose last append was interrupted, or one of *)
(* whose bytes has changed on disk. JournalFile has frames for bytes, and  *)
(* takes from here what a scan may report.                                 *)
(*                                                                         *)
(* A length prefix has two bytes here and a trailer two. The bytes of a    *)
(* trailer stand for what they are a checksum of: no two inputs have the   *)
(* same one, but the CRC of nothing is 0, as it is of CRC-32.              *)
(***************************************************************************)
EXTENDS Integers, Sequences, FiniteSets

CONSTANTS Radix,       \* a byte is one of 0 .. Radix-1
          Payloads,    \* marshalled journal entries, as sequences of the values of bytes
          MaxPayload,  \* maxFramePayload
          MaxFrames,   \* bound: frames in the file
          MaxCrashes,  \* bound: appends that are interrupted
          MaxDamage    \* bound: bytes that change on disk

ASSUME ScanBounds == Radix \in Nat \ {0} /\ MaxFrames \in Nat
                     /\ MaxCrashes \in Nat /\ MaxDamage \in Nat
ASSUME PrefixHoldsTheLimit == MaxPayload \in Nat /\ MaxPayload < Radix * Radix
\* An entry is a step or a signal: it begins with a tag, which is not 0.
ASSUME EntriesAreTagged ==
  \A p \in Payloads : p \in Seq(0..(Radix - 1)) /\ p # <<>> /\ p[1] # 0

VARIABLES
  mac,      \* WithJournalMACKey is used
  file,     \* the bytes of journal.log
  handle,   \* the cached append handle
  written,  \* history: the frames in the file, with the offsets appendFrame returned
  damaged,  \* history: the byte that is not what was written, or 0
  unwritten,\* history: the file ends in space that was allocated and not written
  used      \* how much of the bounds on crashes and damage is used up

vars == <<mac, file, handle, written, damaged, unwritten, used>>

Byte(n) == [value |-> n, of |-> <<>>]
Bytes == [value : 0..(Radix - 1), of : {<<>>}]
PrefixSize == 2
TrailerSize == 2

Closed == [open |-> FALSE, count |-> 0, size |-> 0]

\* A checksum may cover an index, which no byte holds.
Covered == [value : Nat, of : {<<>>}]

TypeOK ==
  /\ mac \in BOOLEAN /\ unwritten \in BOOLEAN
  /\ file \in Seq([value : 0..(Radix - 1), of : Seq(Covered)])
  /\ handle \in [open : BOOLEAN, count : Nat, size : 0..Len(file)]
  /\ \A frame \in written : /\ frame.index \in Nat /\ frame.byteOffset \in 0..Len(file)
                             /\ frame.payload \in Seq(Bytes)
  /\ damaged \in 0..Len(file)
  /\ used \in [crashes : 0..MaxCrashes, damage : 0..MaxDamage]

-----------------------------------------------------------------------------
\* Frames

Prefix(payload) == <<Byte(Len(payload) \div Radix), Byte(Len(payload) % Radix)>>

\* crc32.ChecksumIEEE, or journalFrameMAC, which covers the index and the prefix.
Trailer(payload, index) ==
  LET covered == (IF mac THEN <<Byte(index)>> \o Prefix(payload) ELSE <<>>) \o payload
  IN  [k \in 1..TrailerSize |-> [value |-> 0, of |-> covered]]

MakeFrame(payload, index) == Prefix(payload) \o payload \o Trailer(payload, index)

\* readFrame, from the byte after offset: what it returns, with the length that the
\* frame claims.
ReadFrame(bytes, offset, index) ==
  LET left    == Len(bytes) - offset
      length  == bytes[offset + 1].value * Radix + bytes[offset + 2].value
      claimed == PrefixSize + length + TrailerSize
      payload == SubSeq(bytes, offset + PrefixSize + 1, offset + PrefixSize + length)
      trailer == SubSeq(bytes, offset + PrefixSize + length + 1, offset + claimed)
      Returns(kind) == [kind |-> kind, claimed |-> claimed, payload |-> <<>>]
  IN  IF left <= 0 THEN [kind |-> "eof", claimed |-> 0, payload |-> <<>>]
      ELSE IF left < PrefixSize THEN [kind |-> "truncated", claimed |-> 0, payload |-> <<>>]
      ELSE IF length > MaxPayload THEN Returns("corrupt")
      ELSE IF claimed > left THEN Returns("truncated")
      ELSE IF trailer # Trailer(payload, index) THEN Returns(IF mac THEN "mac" ELSE "corrupt")
      ELSE [Returns("entry") EXCEPT !.payload = payload]

\* As it would be if any frame that cannot be read were a torn tail.
AnyUnreadable(frame, offset, size) == frame.kind \in {"truncated", "corrupt"}

\* Nothing can follow: the file ends within the frame, or the frame claims the rest.
TornTail(frame, offset, size) ==
  \/ frame.kind = "truncated"
  \/ frame.kind = "corrupt" /\ offset + frame.claimed >= size

\* The offsets at which the frames end if each begins where the one before it ends.
FrameEnds(bytes) ==
  LET end[i \in 0..Len(bytes)] ==
        IF i = 0 THEN 0 ELSE end[i - 1] + ReadFrame(bytes, end[i - 1], i).claimed
  IN  end

\* scanJournal: the frames visited, and the error.
ScanJournal(bytes) ==
  LET end     == FrameEnds(bytes)
      Read(i) == ReadFrame(bytes, end[i - 1], i)
      count   == CHOOSE n \in 0..Len(bytes) : /\ \A i \in 1..n : Read(i).kind = "entry"
                                             /\ Read(n + 1).kind # "entry"
      last    == Read(count + 1)
  IN  [frames |-> [i \in 1..count |-> [index |-> i, byteOffset |-> end[i],
                                      payload |-> Read(i).payload]],
       size   |-> end[count],
       error  |-> last.kind # "eof" /\ ~TornTail(last, end[count], Len(bytes))]

-----------------------------------------------------------------------------
\* The file

Init ==
  /\ mac \in BOOLEAN
  /\ file = <<>> /\ written = {}
  /\ handle = Closed
  /\ damaged = 0
  /\ used = [crashes |-> 0, damage |-> 0]
  /\ unwritten = FALSE

Undamaged(frame) == damaged = 0 \/ frame.byteOffset < damaged

\* As it would be if the torn tail were left in place.
OpenAsIs ==
  /\ ~handle.open
  /\ LET scan == ScanJournal(file) IN
     /\ ~scan.error
     /\ handle' = [open |-> TRUE, count |-> Len(scan.frames), size |-> scan.size]
  /\ UNCHANGED <<mac, file, written, damaged, unwritten, used>>

\* getOrOpenJournal: journalTail and truncateJournalTo; an error of the scan is
\* returned and nothing is opened.
Open ==
  /\ ~handle.open
  /\ LET scan == ScanJournal(file) IN
     /\ ~scan.error
     /\ handle' = [open |-> TRUE, count |-> Len(scan.frames), size |-> scan.size]
     /\ file' = SubSeq(file, 1, scan.size)
     /\ written' = {frame \in written : Undamaged(frame)}
     /\ damaged' = IF damaged > scan.size THEN 0 ELSE damaged
  /\ unwritten' = FALSE
  /\ UNCHANGED <<mac, used>>

AsBytes(entry) == [k \in DOMAIN entry |-> Byte(entry[k])]

\* As it would be without checkFramePayload.
AnySize(entry) == TRUE

\* checkFramePayload refuses with ErrPayloadTooLarge.
Fits(entry) == Len(entry) <= MaxPayload

\* The next frame of the open handle, with the offsets of it that are returned.
NextFrame(entry) ==
  LET frame == MakeFrame(AsBytes(entry), handle.count + 1)
  IN  [bytes |-> frame, at |-> [index |-> handle.count + 1, byteOffset |-> handle.size + Len(frame),
                                payload |-> AsBytes(entry)]]

\* appendFrame: the whole frame goes to the end of the file.
AppendFrame(entry) ==
  /\ handle.open /\ Cardinality(written) < MaxFrames /\ Fits(entry)
  /\ LET new == NextFrame(entry) IN
     /\ file' = file \o new.bytes
     /\ written' = written \cup {new.at}
     /\ handle' = [handle EXCEPT !.count = @ + 1, !.size = new.at.byteOffset]
  /\ UNCHANGED <<mac, damaged, unwritten, used>>

\* The process or the machine stops within an append: a part of the frame is there,
\* or its space is, full of zeros.
CrashInAppend(entry) ==
  /\ handle.open /\ Cardinality(written) < MaxFrames /\ Fits(entry)
  /\ used.crashes < MaxCrashes /\ used' = [used EXCEPT !.crashes = @ + 1]
  /\ LET new == NextFrame(entry) IN
     \/ /\ \E n \in 0..(Len(new.bytes) - 1) : file' = file \o SubSeq(new.bytes, 1, n)
        /\ UNCHANGED <<written, unwritten>>
     \/ /\ file' = file \o new.bytes
        /\ written' = written \cup {new.at}
        /\ UNCHANGED unwritten
     \/ /\ file' = file \o [k \in DOMAIN new.bytes |-> Byte(0)]
        /\ unwritten' = TRUE
        /\ UNCHANGED written
  /\ handle' = Closed
  /\ UNCHANGED <<mac, damaged>>

\* closeJournal, or the end of the process between two appends.
Close ==
  /\ handle.open
  /\ handle' = Closed
  /\ UNCHANGED <<mac, file, written, damaged, unwritten, used>>

\* The disk returns a byte that was not written.
Damage(k, byte) ==
  /\ used.damage < MaxDamage /\ damaged = 0
  /\ used' = [used EXCEPT !.damage = @ + 1]
  /\ \E frame \in written : k <= frame.byteOffset
  /\ byte # file[k]
  /\ file' = [file EXCEPT ![k] = byte]
  /\ damaged' = k
  /\ UNCHANGED <<mac, handle, written, unwritten>>

Next ==
  \/ Open \/ Close
  \/ \E entry \in Payloads : AppendFrame(entry) \/ CrashInAppend(entry)
  \/ \E k \in DOMAIN file, byte \in Bytes : Damage(k, byte)

Spec == Init /\ [][Next]_vars

-----------------------------------------------------------------------------
\* Properties

IsEntry(frame) == frame.payload # <<>>

\* journal.go:533-534: a scan visits the frames in front of the damage, all of them,
\* in order, each with the index and byte offset that its append returned, over any
\* number of interrupted appends and reopenings. Space that was not written may look
\* like frames, but with no entry in them, which every caller ignores.
ReadsIntactFrames ==
  LET frames == ScanJournal(file).frames IN
  /\ {frames[i] : i \in {n \in DOMAIN frames : IsEntry(frames[n])}}
       = {frame \in written : Undamaged(frame)}
  /\ \A i, j \in DOMAIN frames : i < j => frames[i].byteOffset < frames[j].byteOffset

\* journal.go:536-537 ("a crash mid-append cannot poison replay or resume"), unless
\* space that was not written fails a MAC.
CrashRecovered == damaged = 0 /\ ~(mac /\ unwritten) => ~ScanJournal(file).error

First(frame) == frame.byteOffset - TrailerSize - Len(frame.payload) - PrefixSize + 1
Interior(frame) == frame.byteOffset < Len(file)

\* journal.go:537-541: a change of a frame's payload or trailer with bytes after the
\* frame is reported, and not taken for the end of the journal. It is not said of the
\* length prefix: one that now claims more than the rest of the file passes for a torn
\* tail, and the intact frames behind it are gone.
BodyDamageReported ==
  \A frame \in written :
    /\ Interior(frame)
    /\ damaged \in (First(frame) + PrefixSize)..frame.byteOffset
    => ScanJournal(file).error
=============================================================================
