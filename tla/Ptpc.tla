-------------------------------- MODULE Ptpc --------------------------------
(***************************************************************************)
(* The PTPv2 client (lib/ptpc.c, include/aoip/ptpc.h): what it does with   *)
(* one poll of each of its two sockets.  The operators carry the names of  *)
(* the functions; the loops that call them are PtpSession and NetworkLoop. *)
(*                                                                         *)
(* A poll's outcome m is a message, or a record whose type says that there *)
(* was nothing to receive (EAGAIN) or that recv() failed.  A message has   *)
(* the header fields the client looks at: type, domain, clockId, seqid,    *)
(* the flags of an Announce and the timestamp ts of a Follow_Up or a       *)
(* Delay_Resp.  Other versions of the protocol are other domains here:     *)
(* the client tests both together.  clk is what ns_gettime() reads.        *)
(***************************************************************************)
EXTENDS Integers

CONSTANTS U64,   \* 2^64: path delays are compared as unsigned numbers
          U8     \* 2^8: synced_count is a uint8_t

ASSUME WidthAssumption == U64 \in Nat \ {0} /\ U8 \in Nat \ {0, 1}

VARIABLES ptpc,   \* ptpc_ctx_t
          sync,   \* ptpc_sync_ctx_t
          ret     \* what the last of these functions returned

Nothing == [type |-> "EAGAIN"]
Failure == [type |-> "error"]

Arrived(m) == m.type \notin {"EAGAIN", "error"}

(* A context as the loops set it up: zeroed, the timer started. *)
SyncContext(clk) ==
  [state |-> "S_INIT", synced_count |-> 0, seqid |-> 0, now |-> clk,
   timeout_timer |-> clk, t1 |-> 0, t2 |-> 0, t3 |-> 0, t4 |-> 0]

(* ctx.ptpc after ptpc_create_context. *)
PtpcContext == [ptp_server_id |-> 0, mean_path_delay |-> 0, ptp_offset |-> 0]

SyncType(S) ==
  [state : {"S_INIT", "S_SYNC", "S_FOLLOW_UP"}, synced_count : 0 .. U8 - 1,
   seqid : S, now : Int, timeout_timer : Int,
   t1 : Int, t2 : Int, t3 : Int, t4 : Int]

PtpcType(S) ==
  [ptp_server_id : S, mean_path_delay : Int, ptp_offset : Int]

-----------------------------------------------------------------------------
(* Mutated form: the state is left as it is. *)
ptp_sync_state_reset_times_only(s) ==
  [s EXCEPT !.t1 = 0, !.t2 = 0, !.t3 = 0, !.t4 = 0]

-----------------------------------------------------------------------------
ptp_sync_state_reset(s) ==
  [s EXCEPT !.t1 = 0, !.t2 = 0, !.t3 = 0, !.t4 = 0, !.state = "S_INIT"]

(* C's division: it rounds towards zero. *)
Halved(x) == IF x >= 0 THEN x \div 2 ELSE -((-x) \div 2)

ptp_mean_path_delay(s) == Halved((s.t2 - s.t3) + (s.t4 - s.t1))

ptp_offset(delay, s) == s.t2 - s.t1 - delay

(* The first two-step multicast Announce of domain 0 selects the server. *)
ptpc_recv_announce_msg(m) ==
  LET accepted == /\ Arrived(m)
                  /\ m.type = "ANNOUNCE"
                  /\ m.domain = 0
                  /\ "TWO_STEP" \in m.flags
                  /\ "UNICAST" \notin m.flags
  IN  /\ ptpc' = IF accepted THEN [ptpc EXCEPT !.ptp_server_id = m.clockId] ELSE ptpc
      /\ ret' = IF accepted THEN 1 ELSE 0
      /\ UNCHANGED sync

(* t2 is read before the socket, whatever the socket has to say.  A Sync   *)
(* is taken from any server.                                               *)
ptpc_recv_sync_msg(m, clk) ==
  LET polled == [sync EXCEPT !.t2 = clk]
      begins == /\ sync.state = "S_INIT"
                /\ m.type = "SYNC"
                /\ m.domain = 0
  IN  /\ sync' = IF begins
                 THEN [polled EXCEPT !.seqid = m.seqid, !.state = "S_SYNC",
                                     !.timeout_timer = sync.now]
                 ELSE polled
      /\ ret' = IF m.type = "error" THEN -1 ELSE 0
      /\ UNCHANGED ptpc

(***************************************************************************)
(* ptpc_recv_general_packet, one operator for each way through it.         *)
(***************************************************************************)
InDomain(m) == Arrived(m) /\ m.domain = 0

(* Mutated form: a message of another server is good enough. *)
Expected_any_server(m, st, type) ==
  /\ InDomain(m)
  /\ m.seqid = sync.seqid
  /\ sync.state = st
  /\ m.type = type

(* m is what an exchange in state st waits for. *)
Expected(m, st, type) ==
  /\ InDomain(m)
  /\ m.seqid = sync.seqid
  /\ m.clockId = ptpc.ptp_server_id
  /\ sync.state = st
  /\ m.type = type

(* Any message of another sequence number starts the exchange over, and    *)
(* restarts the timer.                                                     *)
OtherSequence(m) ==
  /\ InDomain(m)
  /\ m.seqid # sync.seqid
  /\ sync' = [ptp_sync_state_reset(sync) EXCEPT !.timeout_timer = sync.now]
  /\ ret' = 0
  /\ UNCHANGED ptpc

(* Mutated form: the new server is taken over. *)
NewServer_taken_over(m) ==
  /\ InDomain(m)
  /\ m.seqid = sync.seqid
  /\ m.clockId # ptpc.ptp_server_id
  /\ ptpc' = [ptpc EXCEPT !.ptp_server_id = m.clockId]
  /\ ret' = 0
  /\ UNCHANGED sync

NewServer(m) ==
  /\ InDomain(m)
  /\ m.seqid = sync.seqid
  /\ m.clockId # ptpc.ptp_server_id
  /\ ret' = -1
  /\ UNCHANGED <<sync, ptpc>>

(* The Delay_Req goes out; "again" says that sendto() answered EAGAIN,     *)
(* which the client takes for success.                                     *)
FollowUp(m, clk, sent) ==
  /\ Expected(m, "S_SYNC", "FOLLOW_UP")
  /\ sync' = IF sent = "error"
             THEN [sync EXCEPT !.t1 = m.ts]
             ELSE [sync EXCEPT !.t1 = m.ts, !.t3 = clk, !.state = "S_FOLLOW_UP",
                               !.timeout_timer = sync.now]
  /\ ret' = IF sent = "error" THEN -1 ELSE 0
  /\ UNCHANGED ptpc

(* Mutated form: the offset is taken whether or not the delay is better. *)
DelayResp_always_offset(m) ==
  /\ Expected(m, "S_FOLLOW_UP", "DELAY_RESP")
  /\ LET s     == [sync EXCEPT !.t4 = m.ts]
         delay == ptp_mean_path_delay(s)
         old   == ptpc.mean_path_delay
         best  == IF old = 0 \/ delay % U64 <= old % U64 THEN delay ELSE old
     IN  /\ ptpc' = [ptpc EXCEPT !.mean_path_delay = best, !.ptp_offset = ptp_offset(best, s)]
         /\ sync' = [s EXCEPT !.synced_count = (@ + 1) % U8,
                              !.timeout_timer = sync.now]
  /\ ret' = 0

(* Mutated form: the counter has no width. *)
DelayResp_wide_count(m) ==
  /\ Expected(m, "S_FOLLOW_UP", "DELAY_RESP")
  /\ sync' = [sync EXCEPT !.t4 = m.ts, !.synced_count = @ + 1,
                          !.timeout_timer = sync.now]
  /\ ret' = 0
  /\ UNCHANGED ptpc

(* The measurement is counted; it replaces the current one when its delay  *)
(* is not larger, or when the current one is 0.  The exchange is not reset *)
(* afterwards.                                                             *)
DelayResp(m) ==
  /\ Expected(m, "S_FOLLOW_UP", "DELAY_RESP")
  /\ LET s     == [sync EXCEPT !.t4 = m.ts]
         delay == ptp_mean_path_delay(s)
         old   == ptpc.mean_path_delay
     IN  /\ ptpc' = IF old = 0 \/ delay % U64 <= old % U64
                    THEN [ptpc EXCEPT !.mean_path_delay = delay,
                                      !.ptp_offset = ptp_offset(delay, s)]
                    ELSE ptpc
         /\ sync' = [s EXCEPT !.synced_count = (@ + 1) % U8,
                              !.timeout_timer = sync.now]
  /\ ret' = 0

(* Nothing received, another domain, or a message of the exchange that     *)
(* the state does not wait for.                                            *)
Ignored(m) ==
  /\ m.type # "error"
  /\ InDomain(m) => /\ m.seqid = sync.seqid
                    /\ m.clockId = ptpc.ptp_server_id
                    /\ ~(sync.state = "S_SYNC" /\ m.type = "FOLLOW_UP")
                    /\ ~(sync.state = "S_FOLLOW_UP" /\ m.type = "DELAY_RESP")
  /\ ret' = 0
  /\ UNCHANGED <<sync, ptpc>>

RecvFails(m) ==
  /\ m.type = "error"
  /\ ret' = -1
  /\ UNCHANGED <<sync, ptpc>>

ptpc_recv_general_packet(m, clk, sent) ==
  \/ RecvFails(m)
  \/ Ignored(m)
  \/ OtherSequence(m)
  \/ NewServer(m)
  \/ FollowUp(m, clk, sent)
  \/ DelayResp(m)
=============================================================================
