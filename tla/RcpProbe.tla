------------------------------- MODULE RcpProbe -------------------------------
(***************************************************************************)
(* The Spinel probe of rcp_readiness.py: six requests to the radio         *)
(* co-processor (RCP) over one TCP session, framed as HDLC with byte       *)
(* stuffing and a checksum.  When the relay is probed in Z2MGuard, this is *)
(* what happens inside.                                                    *)
(*                                                                         *)
(* Bytes are numbers 0..255, and the codec is modelled byte by byte, since *)
(* where chunks are cut is one of the hazards.  A firmware text is one     *)
(* byte, MAX_FRAME stands for the limit of 4096.                           *)
(*                                                                         *)
(* Bounds: MaxNotices frames nobody asked for, MaxFaults bytes damaged or  *)
(* lost on the way to the host.                                            *)
(***************************************************************************)
EXTENDS Integers, Sequences, SequencesExt, Bitwise

CONSTANTS
  Rcps,         \* kinds of RCP, see Rcp
  Leftovers,    \* what may be on the line when the session is opened
  Notices,      \* payloads of frames the RCP sends on its own
  Chunks,       \* sizes recv may return of what there is
  MAX_FRAME, MaxNotices, MaxFaults

Byte == 0..255
Rcp == [protocol : Seq(Byte), firmware : Byte, interface : Byte,
        enables : {"yes", "ignores", "rejects"}]

ASSUME ProbeConstants ==
  /\ Rcps \subseteq Rcp /\ Leftovers \subseteq Seq(Byte) /\ Notices \subseteq Seq(Byte)
  /\ Chunks \subseteq Nat \ {0} /\ {MAX_FRAME, MaxNotices, MaxFaults} \subseteq Nat

-----------------------------------------------------------------------------
(* Integers and frames.                                                    *)

FLAG == 126
ESC == 125
Stuffed == {FLAG, ESC, 17, 19, 248}

\* Exclusive or with 0x20.
Toggled(byte) == IF (byte \div 32) % 2 = 1 THEN byte - 32 ELSE byte + 32

\* Groups of seven bits, the lowest first; all but the last are marked.
Packed(value) ==
  LET n == CHOOSE k \in 1..5 : value < 128^k /\ (k = 1 \/ value >= 128^(k - 1))
  IN [i \in 1..n |-> ((value \div 128^(i - 1)) % 128) + (IF i < n THEN 128 ELSE 0)]

\* The integer at offset, of five bytes at most, and the offset after it.
Malformed == [value |-> -1, next |-> 0]
Unpack(data, offset) ==
  LET ends == {i \in offset .. offset + 4 : i <= Len(data) /\ data[i] < 128}
      end == Min(ends)
  IN IF ends = {} THEN Malformed
     ELSE [next |-> end + 1,
           value |-> MapThenSumSet(LAMBDA i : (data[i] % 128) * 128^(i - offset), offset .. end)]

\* The checksum: one byte shifted out of crc bit by bit, as a table of its high and low
\* byte, and that of a sequence of bytes.
Nibbles == [a \in 0..15, b \in 0..15 |-> a ^^ b]
XorByte(a, b) == 16 * Nibbles[a \div 16, b \div 16] + Nibbles[a % 16, b % 16]
Shifted[crc \in 0..65535, bits \in 0..8] ==
  IF bits = 0 THEN crc
  ELSE Shifted[IF crc % 2 = 1 THEN (crc \div 2) ^^ 33800 ELSE crc \div 2, bits - 1]
CrcTable == [byte \in Byte |-> <<Shifted[byte, 8] \div 256, Shifted[byte, 8] % 256>>]
FcsFrom[high \in Byte, low \in Byte, data \in Seq(Byte)] ==
  IF data = <<>> THEN 256 * high + low
  ELSE LET entry == CrcTable[XorByte(low, Head(data))]
       IN FcsFrom[entry[1], XorByte(high, entry[2]), Tail(data)]
Fcs(data) == FcsFrom[255, 255, data]

\* The vector of test_z2m_guard.py:76.
ASSUME FcsVector == Fcs([i \in 1..9 |-> 48 + i]) = 65535 - 36974

Stuff(byte) == IF byte \in Stuffed THEN <<ESC, Toggled(byte)>> ELSE <<byte>>
StuffedBytes[data \in Seq(Byte)] ==
  IF data = <<>> THEN <<>> ELSE Stuff(Head(data)) \o StuffedBytes[Tail(data)]
Trailer[checksum \in 0..65535] == <<checksum % 256, checksum \div 256>>
Hdlc(data) ==
  <<FLAG>> \o StuffedBytes[data \o Trailer[65535 - Fcs(data)]] \o <<FLAG>>

Valid(buffer) == Len(buffer) >= 4 /\ Fcs(buffer) = 61624   \* 0xf0b8

NewDecoder == [buffer |-> <<>>, escape |-> FALSE, frames |-> <<>>, oversized |-> FALSE]

\* Mutant of Oversized.
NoLimit(length) == FALSE

Oversized(length) == length > MAX_FRAME

\* One byte in Frames.feed; a buffer over the limit raises.
FeedByte(decoder, byte) ==
  CASE byte = FLAG ->
         [NewDecoder EXCEPT !.frames = decoder.frames \o
            (IF ~decoder.escape /\ Valid(decoder.buffer)
               THEN <<SubSeq(decoder.buffer, 1, Len(decoder.buffer) - 2)>> ELSE <<>>)]
    [] byte = ESC -> [decoder EXCEPT !.escape = TRUE]
    [] byte \notin {FLAG, ESC} ->
         [decoder EXCEPT !.buffer = Append(@, IF decoder.escape THEN Toggled(byte) ELSE byte),
                         !.escape = FALSE,
                         !.oversized = Oversized(Len(decoder.buffer) + 1)]

Decoder == [buffer : Seq(Byte), escape : BOOLEAN, frames : Seq(Seq(Byte)), oversized : BOOLEAN]
Fed[decoder \in Decoder, data \in Seq(Byte)] ==
  IF data = <<>> \/ decoder.oversized THEN decoder
  ELSE Fed[FeedByte(decoder, Head(data)), Tail(data)]

\* Mutant of Feed: an escape at the end of a chunk is forgotten.
FeedAfresh(decoder, data) == Fed[[NewDecoder EXCEPT !.buffer = decoder.buffer], data]

\* feed: the state of the decoder goes on, the frames are those of this call.
Feed(decoder, data) == Fed[[decoder EXCEPT !.frames = <<>>, !.oversized = FALSE], data]

-----------------------------------------------------------------------------
(* The session.                                                            *)

VARIABLES             \* probe_rcp
  at,                 \* the request that waits for its answer, 0 at the end
  tid, decoder,
  failure,            \* what is raised when finally is through, "none"
  result              \* "running", "passed" or what was raised

VARIABLES             \* the connection and the RCP
  connected,
  requests,           \* frames on their way to the RCP
  line,               \* bytes on their way to the host
  rcp, phy,           \* its kind; the radio is enabled
  notices, faults

VARIABLES             \* history
  spoken, heard,      \* payloads of the frames put on the line, and of those decoded
  was_on              \* the RCP enabled its radio in this session

host == <<at, tid, decoder, failure, result>>
wire == <<connected, requests, line>>
vars == <<host, wire, rcp, phy, notices, faults, spoken, heard, was_on>>

GET == 2
SET == 3
IS == 6
PHY == 32
Requests ==
  << [command |-> GET, prop |-> 1, value |-> <<>>],      \* protocol
     [command |-> GET, prop |-> 2, value |-> <<>>],      \* firmware
     [command |-> GET, prop |-> 3, value |-> <<>>],      \* interface
     [command |-> SET, prop |-> PHY, value |-> <<1>>],
     [command |-> GET, prop |-> PHY, value |-> <<>>],
     [command |-> SET, prop |-> PHY, value |-> <<0>>] >> \* in finally

Header(number) == 128 + number
Encoded(number, i) ==
  Hdlc(<<Header(number), Requests[i].command>> \o Packed(Requests[i].prop)
         \o Requests[i].value)

\* What was spoken, of what is on the line at first.
Payloads(bytes) == Feed(NewDecoder, bytes).frames

Init ==
  /\ rcp \in Rcps /\ phy = FALSE /\ line \in Leftovers
  /\ at = 1 /\ tid = 1 /\ requests = <<Encoded(1, 1)>>
  /\ decoder = NewDecoder /\ failure = "none" /\ result = "running" /\ connected = TRUE
  /\ notices = MaxNotices /\ faults = MaxFaults
  /\ spoken = Payloads(line) /\ heard = <<>> /\ was_on = FALSE

Running == result = "running"

\* request: the next transaction number, and its frame is sent.
NextTid(number) == (number % 15) + 1
Request(i) ==
  /\ at' = i /\ tid' = NextTid(tid)
  /\ requests' = (IF connected THEN Append(requests, Encoded(tid', i)) ELSE requests)

End(outcome) == at' = 0 /\ result' = outcome /\ UNCHANGED tid

\* Mutant of Raise.
RaiseAtOnce(reason) ==
  End(IF failure = "none" THEN reason ELSE failure) /\ UNCHANGED <<requests, failure>>

\* An exception within the radio test disables the radio first; one of that last request
\* takes the place of the earlier.
Raise(reason) ==
  IF at \in {4, 5} THEN Request(6) /\ failure' = reason /\ UNCHANGED result
                   ELSE End(reason) /\ UNCHANGED <<requests, failure>>

Expected(i, value) ==
  CASE i = 1 -> LET major == Unpack(value, 1)
                    minor == Unpack(value, major.next)
                IN /\ major # Malformed /\ minor # Malformed
                   /\ minor.next = Len(value) + 1
                   /\ <<major.value, minor.value>> = <<4, 3>>
    [] i = 2 -> value = <<74>>
    [] i = 3 -> Unpack(value, 1).value = 3
    [] i \in {4, 5} -> value = <<1>>
    [] i = 6 -> value = <<0>>

Reasons == << "protocol", "firmware", "interface", "phy_enable", "phy_enable", "phy_disable" >>

\* request returns value.
Answered(value) ==
  CASE ~Expected(at, value) -> Raise(Reasons[at])
    [] Expected(at, value) /\ at < 6 -> Request(at + 1) /\ UNCHANGED <<failure, result>>
    [] Expected(at, value) /\ at = 6 ->
         End(IF failure = "none" THEN "passed" ELSE failure) /\ UNCHANGED <<requests, failure>>

\* The integer at offset of a frame, and what follows it.
Command(frame) == Unpack(frame, 2)
Key(frame) == IF Command(frame) = Malformed THEN Malformed
              ELSE Unpack(frame, Command(frame).next)

\* Mutant of ForThis.
AnyTransaction(frame) == Header(tid) # 0

ForThis(frame) == frame[1] = Header(tid)

\* A frame that ends the wait: the answer, a status, or one that cannot be read.
Ends(frame) ==
  /\ ForThis(frame)
  /\ \/ Malformed \in {Command(frame), Key(frame)}
     \/ /\ Command(frame).value = IS
        /\ Key(frame).value \in {0, Requests[at].prop}

Take(frame) ==
  CASE Malformed \in {Command(frame), Key(frame)} -> Raise("malformed")
    [] Malformed \notin {Command(frame), Key(frame)} ->
         IF Key(frame).value = Requests[at].prop
           THEN Answered(SubSeq(frame, Key(frame).next, Len(frame)))
           ELSE Raise("status")

\* recv returns what there is, in pieces of any length; frames behind the one that ends the
\* wait are forgotten.
Receive(n) ==
  /\ Running /\ line # <<>>
  /\ line' = SubSeq(line, n + 1, Len(line))
  /\ \E fed \in {Feed(decoder, SubSeq(line, 1, Min({n, Len(line)})))} :
       LET first == SelectInSeq(fed.frames, Ends)
       IN /\ decoder' = [fed EXCEPT !.frames = <<>>]
          /\ heard' = heard \o fed.frames
          /\ CASE fed.oversized -> Raise("oversized")
               [] ~fed.oversized /\ first = 0 -> UNCHANGED <<at, tid, failure, result, requests>>
               [] ~fed.oversized /\ first # 0 -> Take(fed.frames[first])
  /\ UNCHANGED <<connected, rcp, phy, notices, faults, spoken, was_on>>

\* recv returns nothing: the relay closed the connection.
Closed ==
  /\ Running /\ ~connected /\ line = <<>>
  /\ Raise("closed")
  /\ UNCHANGED <<decoder, connected, line, rcp, phy, notices, faults, spoken, heard, was_on>>

\* The deadline passes, which is one for all requests: the last one is sent, but not
\* waited for.
Expires ==
  /\ Running
  /\ IF at \in {4, 5}
       THEN /\ requests' = (IF connected THEN Append(requests, Encoded(NextTid(tid), 6))
                                         ELSE requests)
            /\ tid' = NextTid(tid)
       ELSE UNCHANGED <<requests, tid>>
  /\ at' = 0 /\ result' = "timeout" /\ UNCHANGED failure
  /\ UNCHANGED <<decoder, connected, line, rcp, phy, notices, faults, spoken, heard, was_on>>

-----------------------------------------------------------------------------
(* The relay and the RCP.                                                  *)

Speak(said) == \E payload \in {said} :
  /\ line' = (IF connected THEN line \o Hdlc(payload) ELSE line)
  /\ spoken' = (IF connected THEN Append(spoken, payload) ELSE spoken)

Property(prop) ==
  CASE prop = 1 -> rcp.protocol
    [] prop = 2 -> <<rcp.firmware>>
    [] prop = 3 -> Packed(rcp.interface)
    [] prop = PHY -> <<IF phy' THEN 1 ELSE 0>>

\* The RCP carries out a request and answers it.
RcpActs ==
  /\ requests # <<>> /\ requests' = Tail(requests)
  /\ \E request \in {Head(Payloads(Head(requests)))} :
       LET set == request[2] = SET
           rejected == set /\ Last(request) = 1 /\ rcp.enables = "rejects"
       IN /\ phy' = (IF set THEN Last(request) = 1 /\ rcp.enables = "yes" ELSE phy)
          /\ was_on' = (was_on \/ phy')
          /\ Speak(<<request[1], IS>> \o
                     (IF rejected THEN <<0, 3>>
                      ELSE LET prop == Unpack(request, 3).value
                           IN Packed(prop) \o Property(prop)))
  /\ UNCHANGED <<host, connected, rcp, notices, faults, heard>>

RcpNotifies(payload) ==
  /\ notices > 0 /\ notices' = notices - 1
  /\ Running /\ Speak(payload)
  /\ UNCHANGED <<host, connected, requests, rcp, phy, faults, heard, was_on>>

\* A byte is damaged or lost on its way to the host.
Damage(i, byte) ==
  /\ faults > 0 /\ faults' = faults - 1 /\ Running
  /\ line' = (IF byte = -1 THEN RemoveAt(line, i) ELSE [line EXCEPT ![i] = byte])
  /\ UNCHANGED <<host, connected, requests, rcp, phy, notices, spoken, heard, was_on>>

\* The relay or the network goes away, with what is on its way to the RCP.
Disconnects ==
  /\ faults > 0 /\ faults' = faults - 1 /\ Running
  /\ connected /\ connected' = FALSE /\ requests' = <<>>
  /\ UNCHANGED <<host, line, rcp, phy, notices, spoken, heard, was_on>>

Receives == \E n \in Chunks : Receive(n)
Next ==
  \/ Receives \/ Closed \/ Expires \/ RcpActs \/ Disconnects
  \/ \E payload \in Notices : RcpNotifies(payload)
  \/ \E i \in DOMAIN line : \E byte \in {-1, FLAG, Toggled(line[i])} : Damage(i, byte)

Spec == Init /\ [][Next]_vars

-----------------------------------------------------------------------------
(* Properties.                                                             *)

Supported(kind) ==
  kind.protocol = <<4, 3>> /\ kind.firmware = 74 /\ kind.interface = 3

TypeOK ==
  /\ at \in 0..6 /\ tid \in 1..15 /\ (at = 0 <=> ~Running)
  /\ decoder.buffer \in Seq(Byte) /\ Len(decoder.buffer) <= MAX_FRAME + 2
  /\ failure \in {"none", "closed", "oversized", "malformed", "status", "phy_enable"}
  /\ connected \in BOOLEAN /\ line \in Seq(Byte) /\ Len(requests) <= 2
  /\ phy \in BOOLEAN /\ was_on \in BOOLEAN

\* A probe that passes has talked to the supported firmware in this session, has had its
\* radio on and has left it off, whatever was left on the line by an earlier session, sent
\* without being asked for or damaged (z2m_guard.py starts the add-on on this verdict).
PassedIsProved == result = "passed" => Supported(rcp) /\ was_on /\ ~phy

\* However a probe ends, by a deadline in the middle of the radio test too, the radio is off
\* or the request for it is on its way, unless the connection broke ("Leave the radio
\* disabled for Zigbee2MQTT", rcp_readiness.py:222).
RadioLeftOff == ~Running /\ connected /\ phy => requests # <<>>

\* Wherever chunks are cut, what is decoded was sent, in its order; and while nothing is
\* damaged, nothing that was sent is missed, after half a frame or a stray escape too.
FramesWhole ==
  /\ FoldLeft(LAMBDA n, sent : IF n < Len(heard) /\ heard[n + 1] = sent THEN n + 1 ELSE n,
              0, spoken) = Len(heard)
  /\ Running /\ faults = MaxFaults /\ line = <<>> => heard = spoken

\* The supported RCP passes, unless the deadline is reached or something is damaged, also
\* with frames in between that nobody asked for: its probe is not refused, and never waits
\* with nothing on the way.  What was left over on the serial line may exceed the limit of a
\* frame, which ends the probe as "oversized".
SupportedPasses ==
  Supported(rcp) /\ rcp.enables = "yes" /\ faults = MaxFaults =>
    /\ Running => line # <<>> \/ requests # <<>>
    /\ result \in {"running", "passed", "timeout", "oversized"}
=============================================================================
