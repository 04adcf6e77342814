----------------------------- MODULE SapMessage -----------------------------
(***************************************************************************)
(* The SAP message with its SDP text (lib/sap.c, include/aoip/sap.h):      *)
(* build_sap_msg writes it, search_rtp_addr_from_sap_msg finds the         *)
(* multicast address in it.                                                *)
(*                                                                         *)
(* The text is the lengths of its twelve descriptions; what                *)
(* search_rtp_addr_from_sap_msg can tell apart in it is where "c=" stands  *)
(* and whether "IN", "IP4" and an address are behind it.  An address is    *)
(* its four octets, a session name its length and the places at which it   *)
(* holds "c=", with what is behind each.  Offsets count from 0, as in the  *)
(* code.                                                                   *)
(***************************************************************************)
EXTENDS Integers, Sequences

SAP_HDR_SIZE == 24
MAX_SDP_MSG_SIZE == 512
MIN_SAP_C_MSG_SIZE == 27

(* Mutated form: a limit that is taken for large enough. *)
MAX_SDP_DESC_SIZE_tight == 56

MAX_SDP_DESC_SIZE == 64

MAX_IPV4_ASCII_SIZE == 15

Address == [1..4 -> 0..255]

NotFound == <<>>

Power == <<10, 100, 1000, 10000, 100000, 1000000, 10000000, 100000000, 1000000000>>

(* Digits of a number that an int can hold. *)
Digits(n) ==
  CHOOSE k \in 1..10 : (k > 1 => Power[k - 1] <= n) /\ (k < 10 => n < Power[k])

(* Characters of %d. *)
IntLen(n) == IF n < 0 THEN 1 + Digits(-n) ELSE Digits(n)

(* Characters of inet_ntoa(a). *)
AddrLen(a) == 3 + Digits(a[1]) + Digits(a[2]) + Digits(a[3]) + Digits(a[4])

(* A "c=" at an offset of a name or of the text.  c.addr is the address in *)
(* "IN IP4 <address>/" behind it; NotFound stands for any other text: one  *)
(* of the five letters is another one, the '/' does not follow in time, or *)
(* inet_pton cannot read what is before it.                                *)
Mark == [at : Nat, addr : Address \cup {NotFound}]

(* A session's name is a string in an array of 32 bytes.  An address that  *)
(* is read in it has its "c=IN IP4 " and its '/' in it as well: behind the *)
(* name, there is no '/' before the c= line.                               *)
Name ==
  {n \in [len : 0..31, marks : SUBSET Mark] :
     /\ \A c \in n.marks :
          c.at + (IF c.addr = NotFound THEN 2 ELSE 10 + AddrLen(c.addr)) <= n.len
     /\ \A c, e \in n.marks : c.at = e.at => c = e}

SessionType ==
  [name : Name, local : Address, mcast : Address,
   format : 0..255, rate : Int, channels : 0..255, time : Int]

(* What the snprintf calls return for a session c, written or not: cur     *)
(* advances by it.  c.time is time(NULL) as an int, negative from 2038 on. *)
Descriptions(c) ==
  << 5,                                                              \* v=
     15 + 2 * IntLen(c.time) + AddrLen(c.local),                     \* o=
     4 + c.name.len,                                                 \* s=
     27,                                                             \* i=
     14 + AddrLen(c.mcast),                                          \* c=
     7,                                                              \* t=
     25,                                                             \* m=
     17 + IntLen(c.format) + IntLen(c.rate) + IntLen(c.channels),    \* a=rtpmap
     12,                                                             \* a=recvonly
     11,                                                             \* a=ptime
     57,                                                             \* a=ts-refclk
     21 >>                                                           \* a=mediaclk

(* Where cur stands before the s= and the c= line, and after the last. *)
NameLine(d) == d[1] + d[2]
AddressLine(d) == NameLine(d) + d[3] + d[4]
TextLen(d) == AddressLine(d) + d[5] + d[6] + d[7] + d[8] + d[9] + d[10] + d[11] + d[12]

build_sap_msg(flags, c, server) ==
  [flags |-> flags, session |-> c, ptp_server_id |-> server,
   sdp |-> Descriptions(c), len |-> SAP_HDR_SIZE + TextLen(Descriptions(c))]

(* The "c=" of the text, and those of them that are far enough from the    *)
(* end to be looked at.                                                    *)
Marks(msg) ==
  {[at |-> AddressLine(msg.sdp), addr |-> msg.session.mcast]} \cup
  {[c EXCEPT !.at = NameLine(msg.sdp) + 2 + c.at] : c \in msg.session.name.marks}

Hits(msg) == {c \in Marks(msg) : 5 <= c.at /\ c.at <= msg.len - 1 - MIN_SAP_C_MSG_SIZE}

(* What is read behind a "c=".  An address whose text fills ascii_addr is  *)
(* turned down before the '/' is seen.                                     *)
AddressBehind(c) ==
  IF c.addr # NotFound /\ AddrLen(c.addr) < MAX_IPV4_ASCII_SIZE THEN c.addr ELSE NotFound

(* Mutated form: the search runs on to the last "c=". *)
search_rtp_addr_from_sap_msg_last(msg) ==
  IF Hits(msg) = {}
  THEN NotFound
  ELSE AddressBehind(CHOOSE c \in Hits(msg) : \A e \in Hits(msg) : e.at <= c.at)

(* The first "c=" that is far enough from the end counts, in whichever     *)
(* line it is: when there is no address behind it, the search is over.     *)
(* Here len is taken for the length of the text, while build_sap_msg       *)
(* counts the header in.                                                   *)
search_rtp_addr_from_sap_msg(msg) ==
  IF Hits(msg) = {}
  THEN NotFound
  ELSE AddressBehind(CHOOSE c \in Hits(msg) : \A e \in Hits(msg) : c.at <= e.at)
=============================================================================
