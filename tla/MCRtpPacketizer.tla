-------------------------- MODULE MCRtpPacketizer --------------------------
(* RtpPacketizer with MAX_RTP_PACKET scaled to 24: units of up to 11 bytes go *)
(* in one packet, fragments carry 10 bytes, an aggregate holds 11.            *)
EXTENDS RtpPacketizer

N(kind, id, size) == [kind |-> kind, id |-> id, size |-> size, code |-> 4]
Short(kind, id, size) == [kind |-> kind, id |-> id, size |-> size, code |-> 3]

(* Sizes fall on both sides of each limit once the last unit has lost four    *)
(* bytes; the parameter sets of the last two fit an aggregate or do not.      *)
MCAccessUnits ==
  { << N("sps", 0, 3), N("pps", 0, 7) >>,
    << N("sps", 0, 3), N("pps", 0, 3), N("idr", 0, 16) >>,
    << N("idr", 0, 15) >>,
    << N("slice", 0, 11), N("slice", 0, 25) >>,
    << N("slice", 0, 12), N("slice", 0, 26) >>,
    << N("slice", 0, 4) >>,
    << N("slice", 0, 8), Short("pps", 0, 4), N("slice", 0, 9) >>,
    << Short("sps", 1, 4), N("pps", 1, 3), N("slice", 0, 6) >>,
    << N("sps", 1, 3), N("idr", 0, 6), N("pps", 1, 5) >> }
=============================================================================
