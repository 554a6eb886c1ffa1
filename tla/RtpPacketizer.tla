--------------------------- MODULE RtpPacketizer ---------------------------
(* sendRTPData (src/main.cpp): one encoded access unit (AU) after another is *)
(* split into NAL units, the parameter sets among them are remembered, and   *)
(* the rest is sent as RTP packets, single or fragmented (FU-A).  Parameter   *)
(* sets go out aggregated (STAP-A), before an IDR picture and periodically.   *)
(* Everything runs in the encoder's DQ thread, one packet per step.  A NAL    *)
(* unit is its kind, its id, its size in bytes and the length of the start    *)
(* code in front of it; UDP streaming and the RTSP server are both on.        *)
EXTENDS Integers, SequencesExt

CONSTANTS AccessUnits,      (* the byte streams the encoder may produce       *)
          Ids,              (* parameter set ids, a set of naturals           *)
          MaxRtpPacket,     (* MAX_RTP_PACKET, 1400 in the code               *)
          RefreshInterval,  (* REFRESH_INTERVAL, 30 in the code               *)
          SequenceModulus,  (* 2^16 in the code                               *)
          FirstSequence,    (* 100 in the code                                *)
          MaxFrames         (* bound on the number of AUs                     *)

HeaderSize == 12                                 \* sizeof(RTPHeader)
MaxSinglePayload == MaxRtpPacket - HeaderSize - 1
FaultyMaxFragPayload == MaxRtpPacket - HeaderSize - 1   \* no FU header counted
MaxFragPayload == MaxRtpPacket - HeaderSize - 2
MaxStapPayload == MaxRtpPacket - HeaderSize - 1
TimestampStep == 3000                            \* 90000 / 30

ParameterKinds == {"sps", "pps"}
MediaKinds == {"idr", "slice"}
Nal == [kind : ParameterKinds \cup MediaKinds, id : Ids, size : Nat \ {0},
        code : {3, 4}]

ASSUME RtpAssumption ==
  /\ AccessUnits \subseteq Seq(Nal)
  /\ Ids \subseteq Nat /\ IsFiniteSet(Ids) /\ 0 \in Ids
  /\ MaxRtpPacket \in Nat /\ MaxFragPayload > 0
  /\ RefreshInterval \in Nat \ {0}
  /\ SequenceModulus \in Nat \ {0, 1} /\ FirstSequence \in 0..(SequenceModulus - 1)
  /\ MaxFrames \in Nat

VARIABLES pc,           (* "idle", or what sendRTPData does next               *)
          input,        (* the AU being sent                                   *)
          units,        (* nal_units: what the first pass found in it          *)
          next,         (* index of the unit the second pass is at             *)
          remaining,    (* bytes left of the unit being fragmented             *)
          sequence,     (* rtp_sequence_number                                 *)
          timestamp,    (* rtp_timestamp; its wrap at 2^32 is out of reach     *)
          refresh,      (* refresh_counter                                     *)
          extracted,    (* sps_pps_sent                                        *)
          sizes,        (* latest_sps_map, latest_pps_map: size by id, 0: none *)
          sdp,          (* the parameter sets of the RTSP server's SDP         *)
          udpOut,       (* history: packets offered to the UDP queue           *)
          rtspOut,      (* history: packets given to the RTSP server           *)
          unrefreshed   (* history: AUs since parameter sets were last sent,   *)
                        (* counted while there were some to send               *)

inputVars  == <<input, units, next, remaining>>
headerVars == <<sequence, timestamp>>
paramVars  == <<refresh, extracted, sizes, sdp>>
outVars    == <<udpOut, rtspOut>>
vars == <<pc, inputVars, headerVars, paramVars, outVars, unrefreshed>>

-----------------------------------------------------------------------------
(* The records of s whose field has one of the given values, in their order.  *)
Only(s, field, values) ==
  FoldLeft(LAMBDA kept, x : IF x[field] \in values THEN Append(kept, x) ELSE kept,
           << >>, s)

(* First pass: NAL units are found by their four-byte start codes only, so a *)
(* unit with a three-byte one is swallowed by the unit before it.  The search *)
(* for the end stops four bytes before the end of the AU, so the last unit    *)
(* loses four bytes and is skipped when nothing is left.                      *)
NextStart(au, i) == Min({k \in (i + 1)..Len(au) : au[k].code = 4} \cup {Len(au) + 1})
Span(au, i) == SumFunction([k \in i..(NextStart(au, i) - 1) |->
                              au[k].size + IF k = i THEN 0 ELSE 3])
UnitSize(au, i) == IF au[i].code = 3 THEN 0
                   ELSE IF NextStart(au, i) <= Len(au) THEN Span(au, i)
                   ELSE Max({0, Span(au, i) - 4})
NalUnits(au) == Only([i \in 1..Len(au) |->
                        [kind |-> au[i].kind, id |-> au[i].id, size |-> UnitSize(au, i)]],
                     "size", Nat \ {0})

(* extractSPSPPS sees both kinds of start code and whole units.              *)
WholeUnits(au) == [i \in 1..Len(au) |-> [kind |-> au[i].kind, id |-> au[i].id,
                                         size |-> au[i].size]]

(* The id is decoded from the byte after the NAL header, 0 without one.      *)
IdOf(u) == IF u.size < 2 THEN 0 ELSE u.id

(* The maps after the parameter sets among the units of s were stored, and   *)
(* the SDP after updateRTSPWithLatestParameterSets ran for each of them.      *)
Store(old, s) ==
  [k \in ParameterKinds |-> [d \in Ids |->
     LET hits == {i \in 1..Len(s) : s[i].kind = k /\ IdOf(s[i]) = d}
     IN  IF hits = {} THEN old[k][d] ELSE s[Max(hits)].size]]

KnownIds(m, k) == {d \in Ids : m[k][d] > 0}
Complete(m) == \A k \in ParameterKinds : KnownIds(m, k) # {}
SdpOf(m) == [sps |-> m["sps"][Min(KnownIds(m, "sps"))], pps |-> m["pps"]]
NoSdp == [sps |-> 0, pps |-> [d \in Ids |-> 0]]
HasParameterSet(s) == \E i \in 1..Len(s) : s[i].kind \in ParameterKinds

-----------------------------------------------------------------------------
(* Packets.  Parameter sets are added to a STAP-A packet by ascending id, SPS *)
(* before PPS; each loop stops at the first one that does not fit.            *)
Bytes(m, k, ds) == SumFunctionOnSet([d \in Ids |-> 2 + m[k][d]], ds)
Prefix(m, k, d) == Bytes(m, k, {e \in KnownIds(m, k) : e <= d})
Fitting(m, k, used) == {d \in KnownIds(m, k) : used + Prefix(m, k, d) <= MaxStapPayload}

Packet(type, size) == [type |-> type, size |-> size, seq |-> sequence, ts |-> timestamp,
                       marker |-> FALSE, start |-> FALSE, end |-> FALSE,
                       sps |-> {}, pps |-> {}]

StapPacket == LET sps == Fitting(sizes, "sps", 1)
                  used == 1 + Bytes(sizes, "sps", sps)
                  pps == Fitting(sizes, "pps", used)
              IN  [Packet("stap", HeaderSize + used + Bytes(sizes, "pps", pps))
                     EXCEPT !.sps = sps, !.pps = pps]

IsLast == next = Len(units)
SinglePacket(u) == [Packet("single", HeaderSize + u.size) EXCEPT !.marker = IsLast]
FaultyFragmentPacket(u, payload) ==         \* no end for a full last fragment
  [Packet("fu", HeaderSize + 2 + payload)
     EXCEPT !.start = (remaining = u.size - 1),
            !.end = (remaining < MaxFragPayload),
            !.marker = (remaining <= payload /\ IsLast)]
FragmentPacket(u, payload) ==
  [Packet("fu", HeaderSize + 2 + payload)
     EXCEPT !.start = (remaining = u.size - 1),
            !.end = (remaining <= payload),
            !.marker = (remaining <= payload /\ IsLast)]

FaultyNoWrap == sequence' = sequence + 1
FaultyWrapToOne ==
  sequence' = IF sequence + 1 = SequenceModulus THEN 1 ELSE sequence + 1
NextSequence == sequence' = (sequence + 1) % SequenceModulus

(* sendRTPPacketToAllClients, and the STAP-A senders, which then give the     *)
(* packet to the RTSP server once more.  udpOut is what is offered to the UDP *)
(* queue: whether a sender runs to take it is the concern of UdpSender.       *)
SendToAll(p) == udpOut' = Append(udpOut, p) /\ rtspOut' = Append(rtspOut, p)
FaultySendStap(p) ==                        \* not to the RTSP server
  udpOut' = Append(udpOut, p) /\ UNCHANGED rtspOut
SendStap(p) == udpOut' = Append(udpOut, p) /\ rtspOut' = rtspOut \o <<p, p>>

-----------------------------------------------------------------------------
Init == /\ pc = "idle"
        /\ input = << >> /\ units = << >> /\ next = 1 /\ remaining = 0
        /\ sequence = FirstSequence /\ timestamp = 0
        /\ refresh = 0 /\ extracted = FALSE
        /\ sizes = [k \in ParameterKinds |-> [d \in Ids |-> 0]] /\ sdp = NoSdp
        /\ udpOut = << >> /\ rtspOut = << >> /\ unrefreshed = 0

(* The encoder hands over an AU: extractSPSPPS on the first one, then the     *)
(* first pass.                                                                *)
Receive(au) ==
  LET first  == IF extracted THEN sizes ELSE Store(sizes, WholeUnits(au))
      latest == Store(first, NalUnits(au))
      stored == HasParameterSet(NalUnits(au)) \/ (~extracted /\ HasParameterSet(au))
  IN  /\ pc = "idle" /\ timestamp < MaxFrames * TimestampStep
      /\ input' = au
      /\ units' = NalUnits(au)
      /\ next' = 1 /\ remaining' = 0
      /\ extracted' = TRUE
      /\ sizes' = latest
      /\ sdp' = IF stored /\ Complete(latest) THEN SdpOf(latest) ELSE sdp
      /\ pc' = "idr"
      /\ UNCHANGED <<headerVars, refresh, outVars, unrefreshed>>

HasIdr == \E i \in 1..Len(units) : units[i].kind = "idr"

(* sendParameterSetsBeforeIDR                                                 *)
BeforeIdr == /\ pc = "idr"
             /\ IF HasIdr /\ Complete(sizes)
                THEN SendStap(StapPacket) /\ NextSequence /\ unrefreshed' = 0
                ELSE UNCHANGED <<outVars, sequence>>
                     /\ unrefreshed' = unrefreshed + IF Complete(sizes) THEN 1 ELSE 0
             /\ pc' = "refresh"
             /\ UNCHANGED <<inputVars, timestamp, paramVars>>

FaultyRefresh ==                             \* compares before it counts
  /\ pc = "refresh"
  /\ refresh' = IF refresh > RefreshInterval THEN 0 ELSE refresh + 1
  /\ IF refresh > RefreshInterval /\ Complete(sizes)
     THEN SendStap(StapPacket) /\ NextSequence /\ unrefreshed' = 0
     ELSE UNCHANGED <<outVars, sequence, unrefreshed>>
  /\ pc' = "units"
  /\ UNCHANGED <<inputVars, timestamp, extracted, sizes, sdp>>

(* refresh_counter and sendParameterSetsPeriodically                          *)
Refresh == /\ pc = "refresh"
           /\ refresh' = IF refresh + 1 >= RefreshInterval THEN 0 ELSE refresh + 1
           /\ IF refresh + 1 >= RefreshInterval /\ Complete(sizes)
              THEN SendStap(StapPacket) /\ NextSequence /\ unrefreshed' = 0
              ELSE UNCHANGED <<outVars, sequence, unrefreshed>>
           /\ pc' = "units"
           /\ UNCHANGED <<inputVars, timestamp, extracted, sizes, sdp>>

(* Second pass.                                                               *)
AtUnit == pc = "units" /\ next <= Len(units)

SkipParameterSet == /\ AtUnit /\ units[next].kind \in ParameterKinds
                    /\ next' = next + 1
                    /\ UNCHANGED <<pc, input, units, remaining, headerVars, paramVars,
                                   outVars, unrefreshed>>

SendSingle == /\ AtUnit /\ units[next].kind \notin ParameterKinds
              /\ units[next].size <= MaxSinglePayload
              /\ SendToAll(SinglePacket(units[next]))
              /\ NextSequence
              /\ next' = next + 1
              /\ UNCHANGED <<pc, input, units, remaining, timestamp, paramVars, unrefreshed>>

StartFragments == /\ AtUnit /\ units[next].kind \notin ParameterKinds
                  /\ units[next].size > MaxSinglePayload
                  /\ remaining' = units[next].size - 1
                  /\ pc' = "fragment"
                  /\ UNCHANGED <<input, units, next, headerVars, paramVars, outVars, unrefreshed>>

SendFragment ==
  LET payload == IF remaining > MaxFragPayload THEN MaxFragPayload ELSE remaining
  IN  /\ pc = "fragment"
      /\ SendToAll(FragmentPacket(units[next], payload))
      /\ NextSequence
      /\ remaining' = remaining - payload
      /\ IF remaining = payload THEN pc' = "units" /\ next' = next + 1
                                ELSE UNCHANGED <<pc, next>>
      /\ UNCHANGED <<input, units, timestamp, paramVars, unrefreshed>>

Finish == /\ pc = "units" /\ next > Len(units)
          /\ timestamp' = timestamp + TimestampStep
          /\ pc' = "idle"
          /\ UNCHANGED <<inputVars, sequence, paramVars, outVars, unrefreshed>>

Next == \/ \E au \in AccessUnits : Receive(au)
        \/ BeforeIdr \/ Refresh
        \/ SkipParameterSet \/ SendSingle \/ StartFragments \/ SendFragment
        \/ Finish

Spec == Init /\ [][Next]_vars

-----------------------------------------------------------------------------
PacketType == [type : {"stap", "single", "fu"}, size : Nat,
               seq : 0..(SequenceModulus - 1), ts : Nat, marker : BOOLEAN,
               start : BOOLEAN, end : BOOLEAN, sps : SUBSET Ids, pps : SUBSET Ids]

(* Types of the variables.                                                    *)
TypeOK ==
  /\ pc \in {"idle", "idr", "refresh", "units", "fragment"}
  /\ input \in AccessUnits \cup {<< >>}
  /\ units \in Seq([kind : ParameterKinds \cup MediaKinds, id : Ids, size : Nat \ {0}])
  /\ next \in Nat \ {0} /\ remaining \in Nat
  /\ sequence \in 0..(SequenceModulus - 1) /\ timestamp \in Nat
  /\ refresh \in 0..(RefreshInterval - 1) /\ extracted \in BOOLEAN
  /\ sizes \in [ParameterKinds -> [Ids -> Nat]]
  /\ sdp \in [sps : Nat, pps : [Ids -> Nat]]
  /\ udpOut \in Seq(PacketType) /\ rtspOut \in Seq(PacketType)
  /\ unrefreshed \in Nat

(* No packet, aggregated, single or fragment, exceeds MAX_RTP_PACKET.         *)
PacketsFitMtu == \A i \in 1..Len(udpOut) : udpOut[i].size <= MaxRtpPacket

(* On UDP each packet has the sequence number after its predecessor's, across *)
(* aggregates, fragments, AUs and the wrap of the counter.                    *)
FollowsInSequence(s) == \A i \in 2..Len(s) :
                          s[i].seq = (s[i - 1].seq + 1) % SequenceModulus
UdpSequenceGapless == FollowsInSequence(udpOut)

(* A receiver (RFC 6184): units complete so far, size of the fragmented unit  *)
(* being put together (0: none), and whether the stream made sense.           *)
Accept(r, p) ==
  CASE p.type = "stap" -> [r EXCEPT !.ok = r.ok /\ r.open = 0]
    [] p.type = "single" ->
         [r EXCEPT !.ok = r.ok /\ r.open = 0, !.done = Append(r.done, p.size - HeaderSize)]
    [] p.type = "fu" ->
         LET payload == p.size - HeaderSize - 2
             total == payload + IF p.start THEN 1 ELSE r.open
         IN  [ok |-> r.ok /\ p.start = (r.open = 0) /\ ~(p.start /\ p.end) /\ payload > 0,
              open |-> IF p.end THEN 0 ELSE total,
              done |-> IF p.end THEN Append(r.done, total) ELSE r.done]
Depacketize(s) == FoldLeft(Accept, [ok |-> TRUE, open |-> 0, done |-> << >>], s)

(* Once an AU is sent, a receiver that starts with it gets from the packets    *)
(* with its timestamp exactly the units the first pass found, parameter sets   *)
(* aside, in order and with their sizes.  When all start codes of the AU have   *)
(* four bytes these are the AU's own units, except that the last one comes       *)
(* without its last four bytes, or not at all.  The marker bit is only on the     *)
(* last packet of an AU, and there when the AU ends in a unit that is sent.        *)
LastAU == Only(udpOut, "ts", {timestamp - TimestampStep})
MediaUnits == Only(units, "kind", MediaKinds)
LosesFour(au) == [i \in 1..Len(au) |->
                    [WholeUnits(au)[i] EXCEPT !.size = IF i = Len(au) THEN Max({0, @ - 4}) ELSE @]]
AUReassembles ==
  pc = "idle" => LET r == Depacketize(LastAU)
                 IN  /\ r.ok /\ r.open = 0
                     /\ r.done = [i \in 1..Len(MediaUnits) |-> MediaUnits[i].size]
                     /\ (\A i \in 1..Len(input) : input[i].code = 4)
                          => units = Only(LosesFour(input), "size", Nat \ {0})
                     /\ units # << >> /\ units[Len(units)].kind \notin ParameterKinds
                          => udpOut[Len(udpOut)].marker
                     /\ \A i \in 1..(Len(udpOut) - 1) :
                          udpOut[i].marker => udpOut[i + 1].ts > udpOut[i].ts

(* An IDR picture follows an aggregate in its own AU as soon as an SPS and a   *)
(* PPS are known, and the aggregate has every parameter set if all fit.  A late  *)
(* joiner waits at most RefreshInterval AUs for known parameter sets.             *)
AllFit == 1 + Bytes(sizes, "sps", KnownIds(sizes, "sps"))
            + Bytes(sizes, "pps", KnownIds(sizes, "pps")) <= MaxStapPayload
ParameterSetsInTime ==
  pc = "idle" => /\ HasIdr /\ Complete(sizes) =>
                       /\ LastAU[1].type = "stap"
                       /\ AllFit => /\ LastAU[1].sps = KnownIds(sizes, "sps")
                                    /\ LastAU[1].pps = KnownIds(sizes, "pps")
                 /\ unrefreshed < RefreshInterval

(* RTSP clients are sent what UDP receivers are, packet by packet in the same    *)
(* order, except that each aggregate of parameter sets comes exactly twice, one   *)
(* right after the other and with one sequence number: over RTSP the numbers are   *)
(* not strictly monotonic, and nothing but the aggregates breaks them.  And the SDP *)
(* shows the latest parameter sets whenever no AU is handled and both kinds are known. *)
Doubled(s, p) == IF p.type = "stap" THEN s \o <<p, p>> ELSE Append(s, p)
RtspMirrorsUdp == /\ rtspOut = FoldLeft(Doubled, << >>, udpOut)
                  /\ pc = "idle" /\ Complete(sizes) => sdp = SdpOf(sizes)
=============================================================================
