---------------------------- MODULE NetworkLoop -----------------------------
(***************************************************************************)
(* The network thread: network_loop of lib/aoip.c with its two preludes,   *)
(* ptpc_announce_msg_loop and ptpc_sync_loop.  One action is one step of   *)
(* a loop's body; the main thread may set network_stop_flag between any    *)
(* two of them.                                                            *)
(*                                                                         *)
(* The sockets may answer anything: every poll returns any message, or     *)
(* nothing, or an error.  Once the servers are silent nothing arrives any  *)
(* more.                                                                   *)
(*                                                                         *)
(* Time is relative: sync.now is always 0, and a timer is minus the time   *)
(* that passed since it was set.  Which clock values PTP computes from is  *)
(* PtpSession's subject; timestamps are 0 here.                            *)
(***************************************************************************)
EXTENDS Ptpc

CONSTANTS Server, Seqid,     \* what messages can carry
          SyncTarget,        \* 10 measurements end ptpc_sync_loop
          AnnounceTimeout,   \* TIMEOUT_PTP_ANNOUNCE_TIMER, 3 s
          PtpTimeout,        \* TIMEOUT_PTP_TIMER, 2 s
          SapTimeout,        \* TIMEOUT_SAP_TIMER, 30 s
          IntMod,            \* 2^32 ns, 4.29 s: the values of an int
          MaxStep,           \* bound: the longest a loop iteration takes
          Horizon            \* bound: ages beyond it are not told apart

ASSUME LoopAssumption ==
  /\ SyncTarget \in 1 .. U8 - 1
  /\ {AnnounceTimeout, PtpTimeout, SapTimeout} \subseteq Nat \ {0}
  /\ IntMod \in Nat /\ PtpTimeout < IntMod \div 2
  /\ MaxStep \in 1 .. IntMod - PtpTimeout
  /\ Horizon \in Nat
  /\ \A t \in {AnnounceTimeout, PtpTimeout, SapTimeout, IntMod} : Horizon >= t

VARIABLES aoip_mode,   \* of the configuration, never changed
          pc,          \* the step that is next
          stop,        \* ctx->network_stop_flag
          silent,      \* whether the servers have fallen silent
          sap_timer,   \* sync.sap_timeout_timer
          sap          \* the session as the SAP messages sent so far leave it

loopVars == <<pc, sap_timer, sap>>
vars == <<ptpc, sync, ret, loopVars, stop, silent, aoip_mode>>

Message ==
  [type : {"ANNOUNCE", "SYNC", "FOLLOW_UP", "DELAY_RESP"}, domain : {0},
   flags : {{"TWO_STEP"}}, clockId : Server, seqid : Seqid, ts : {0}]

Received == IF silent THEN {Nothing} ELSE Message \cup {Nothing, Failure}

Aged(t, d) == IF t - d < -Horizon THEN -Horizon ELSE t - d

(* C's conversion of a 64-bit number to int. *)
ToInt(x) == LET y == x % IntMod IN IF y < IntMod \div 2 THEN y ELSE y - IntMod

-----------------------------------------------------------------------------
Init ==
  /\ aoip_mode \in {"PLAYBACK", "RECORD"}
  /\ ptpc = PtpcContext
  /\ sync = SyncContext(0)
  /\ ret = 0
  /\ pc = "announce_head"
  /\ stop = FALSE
  /\ silent = FALSE
  /\ sap_timer = 0
  /\ sap = "none"

(* network_cb_stop, called by the main thread. *)
network_cb_stop ==
  /\ stop' = TRUE
  /\ UNCHANGED <<ptpc, sync, ret, loopVars, silent, aoip_mode>>

ServersFallSilent ==
  /\ silent' = TRUE
  /\ UNCHANGED <<ptpc, sync, ret, loopVars, stop, aoip_mode>>

(* ns_gettime(&sync.now) at a loop's head, d after the last time. *)
ReadClock(d) == sync' = [sync EXCEPT !.timeout_timer = Aged(@, d)]

(***************************************************************************)
(* ptpc_announce_msg_loop                                                  *)
(***************************************************************************)
AnnounceHead(d) ==
  /\ pc = "announce_head"
  /\ ReadClock(d)
  /\ pc' = IF stop THEN "sync_start" ELSE "announce_poll"
  /\ UNCHANGED <<ptpc, ret, sap_timer, sap, stop, silent, aoip_mode>>

AnnouncePoll(m) ==
  /\ pc = "announce_poll"
  /\ ptpc_recv_announce_msg(m)
  /\ pc' = IF ret' = 1 THEN "sync_start" ELSE "announce_timer"
  /\ UNCHANGED <<sap_timer, sap, stop, silent, aoip_mode>>

AnnounceTimer ==
  /\ pc = "announce_timer"
  /\ pc' = IF -sync.timeout_timer >= AnnounceTimeout THEN "failed" ELSE "announce_head"
  /\ UNCHANGED <<ptpc, sync, ret, sap_timer, sap, stop, silent, aoip_mode>>

(***************************************************************************)
(* ptpc_sync_loop                                                          *)
(***************************************************************************)
SyncStart ==
  /\ pc = "sync_start"
  /\ sync' = SyncContext(0)
  /\ pc' = "sync_head"
  /\ UNCHANGED <<ptpc, ret, sap_timer, sap, stop, silent, aoip_mode>>

(* Mutated form: only the count ends the loop. *)
SyncHead_not_told(d) ==
  /\ pc = "sync_head"
  /\ ReadClock(d)
  /\ pc' = IF sync.synced_count = SyncTarget THEN "announce" ELSE "sync_event"
  /\ UNCHANGED <<ptpc, ret, sap_timer, sap, stop, silent, aoip_mode>>

SyncHead(d) ==
  /\ pc = "sync_head"
  /\ ReadClock(d)
  /\ pc' = IF stop \/ sync.synced_count = SyncTarget THEN "announce" ELSE "sync_event"
  /\ UNCHANGED <<ptpc, ret, sap_timer, sap, stop, silent, aoip_mode>>

SyncEvent(m) ==
  /\ pc = "sync_event"
  /\ ptpc_recv_sync_msg(m, 0)
  /\ pc' = IF ret' < 0 THEN "failed" ELSE "sync_general"
  /\ UNCHANGED <<sap_timer, sap, stop, silent, aoip_mode>>

SyncGeneral(m, sent) ==
  /\ pc = "sync_general"
  /\ ptpc_recv_general_packet(m, 0, sent)
  /\ pc' = IF ret' < 0 THEN "failed" ELSE "sync_timer"
  /\ UNCHANGED <<sap_timer, sap, stop, silent, aoip_mode>>

(* Mutated form: the timer is not looked at. *)
SyncTimer_never ==
  /\ pc = "sync_timer"
  /\ pc' = "sync_head"
  /\ UNCHANGED <<ptpc, sync, ret, sap_timer, sap, stop, silent, aoip_mode>>

(* The elapsed time goes through the int ret, which is what the loop then  *)
(* returns: a timeout that is noticed before ret turns negative (at 2.15   *)
(* s) is passed on as success.                                             *)
SyncTimer ==
  /\ pc = "sync_timer"
  /\ ret' = ToInt(-sync.timeout_timer)
  /\ pc' = IF ret' < 0 THEN "failed"
           ELSE IF ret' >= PtpTimeout THEN "announce" ELSE "sync_head"
  /\ UNCHANGED <<ptpc, sync, sap_timer, sap, stop, silent, aoip_mode>>

(***************************************************************************)
(* network_loop                                                            *)
(***************************************************************************)
SapAnnounce(ok) ==
  /\ pc = "announce"
  /\ sap' = IF ok THEN "announced" ELSE sap
  /\ pc' = IF ok THEN "main_head" ELSE "failed"
  /\ sync' = SyncContext(0)
  /\ sap_timer' = 0
  /\ UNCHANGED <<ptpc, ret, stop, silent, aoip_mode>>

MainHead(d) ==
  /\ pc = "main_head"
  /\ ReadClock(d)
  /\ sap_timer' = Aged(sap_timer, d)
  /\ pc' = IF stop THEN "delete" ELSE "event"
  /\ UNCHANGED <<ptpc, ret, sap, stop, silent, aoip_mode>>

MainEvent(m) ==
  /\ pc = "event"
  /\ ptpc_recv_sync_msg(m, 0)
  /\ pc' = IF ret' < 0 THEN "delete" ELSE "general"
  /\ UNCHANGED <<sap_timer, sap, stop, silent, aoip_mode>>

MainGeneral(m, sent) ==
  /\ pc = "general"
  /\ ptpc_recv_general_packet(m, 0, sent)
  /\ pc' = IF ret' < 0 THEN "delete" ELSE "rtp"
  /\ UNCHANGED <<sap_timer, sap, stop, silent, aoip_mode>>

rtpUnchanged == UNCHANGED <<ptpc, sync, ret, sap_timer, sap, stop, silent, aoip_mode>>

(* The packet is received, dropped or sent, or there is none. *)
RtpDone ==
  /\ pc = "rtp"
  /\ pc' = "sap_timer"
  /\ rtpUnchanged

(* Mutated form: the send is tried again at once. *)
RtpAgain_at_once ==
  /\ pc = "rtp" /\ aoip_mode = "RECORD"
  /\ pc' = "event"
  /\ rtpUnchanged

(* EAGAIN: "continue" passes over the timers. *)
RtpAgain ==
  /\ pc = "rtp" /\ aoip_mode = "RECORD"
  /\ pc' = "main_head"
  /\ rtpUnchanged

RtpFails ==
  /\ pc = "rtp" /\ aoip_mode = "RECORD"
  /\ pc' = "delete"
  /\ rtpUnchanged

(* Mutated form: the timer is not restarted. *)
SapTimer_not_restarted(ok) ==
  /\ pc = "sap_timer"
  /\ pc' = IF -sap_timer >= SapTimeout /\ ~ok THEN "delete" ELSE "ptp_timer"
  /\ UNCHANGED <<ptpc, sync, ret, sap_timer, sap, stop, silent, aoip_mode>>

SapTimer(ok) ==
  /\ pc = "sap_timer"
  /\ LET due == -sap_timer >= SapTimeout
     IN  /\ sap_timer' = IF due /\ ok THEN 0 ELSE sap_timer
         /\ pc' = IF due /\ ~ok THEN "delete" ELSE "ptp_timer"
  /\ UNCHANGED <<ptpc, sync, ret, sap, stop, silent, aoip_mode>>

(* Mutated form: the loop's error return skips the deletion message. *)
PtpTimer_returns ==
  /\ pc = "ptp_timer"
  /\ pc' = IF -sync.timeout_timer >= PtpTimeout THEN "failed" ELSE "main_head"
  /\ UNCHANGED <<ptpc, sync, ret, sap_timer, sap, stop, silent, aoip_mode>>

PtpTimer ==
  /\ pc = "ptp_timer"
  /\ pc' = IF -sync.timeout_timer >= PtpTimeout THEN "delete" ELSE "main_head"
  /\ UNCHANGED <<ptpc, sync, ret, sap_timer, sap, stop, silent, aoip_mode>>

SapDelete(ok) ==
  /\ pc = "delete"
  /\ sap' = IF ok THEN "deleted" ELSE "delete_failed"
  /\ pc' = IF ok THEN "returned" ELSE "failed"
  /\ UNCHANGED <<ptpc, sync, ret, sap_timer, stop, silent, aoip_mode>>

-----------------------------------------------------------------------------
Sent == {"ok", "again", "error"}

PreludeStep ==
  \/ \E d \in 0..MaxStep : AnnounceHead(d) \/ SyncHead(d)
  \/ \E m \in Received : AnnouncePoll(m) \/ SyncEvent(m)
  \/ \E m \in Received, sent \in Sent : SyncGeneral(m, sent)
  \/ AnnounceTimer \/ SyncStart \/ SyncTimer
  \/ \E ok \in BOOLEAN : SapAnnounce(ok)

MainStep ==
  \/ \E d \in 0..MaxStep : MainHead(d)
  \/ \E m \in Received : MainEvent(m)
  \/ \E m \in Received, sent \in Sent : MainGeneral(m, sent)
  \/ RtpDone \/ RtpAgain \/ RtpFails
  \/ \E ok \in BOOLEAN : SapTimer(ok) \/ SapDelete(ok)
  \/ PtpTimer

Step == PreludeStep \/ MainStep

Next == Step \/ network_cb_stop \/ ServersFallSilent

TimePasses ==
  \E d \in 1..MaxStep : AnnounceHead(d) \/ SyncHead(d) \/ MainHead(d)

Spec == Init /\ [][Next]_vars

(* The thread is scheduled. *)
FairSpec == Spec /\ WF_vars(Step)

(* A loop that goes round for ever takes time, and a socket that keeps     *)
(* being tried is not full every time.                                     *)
TimeAndSockets == SF_vars(TimePasses) /\ SF_vars(RtpDone)

-----------------------------------------------------------------------------
Ended == pc \in {"returned", "failed"}

Preludes == {"announce_head", "announce_poll", "announce_timer", "sync_start",
             "sync_head", "sync_event", "sync_general", "sync_timer", "announce"}
MainLoop == {"main_head", "event", "general", "rtp", "sap_timer", "ptp_timer", "delete"}

TypeOK ==
  /\ aoip_mode \in {"PLAYBACK", "RECORD"}
  /\ pc \in Preludes \cup MainLoop \cup {"returned", "failed"}
  /\ stop \in BOOLEAN /\ silent \in BOOLEAN
  /\ sync \in SyncType(Seqid \cup {0})
  /\ sync.now = 0
  /\ sync.timeout_timer \in -Horizon .. 0 /\ sap_timer \in -Horizon .. 0
  /\ ptpc \in PtpcType(Server \cup {0})
  /\ sap \in {"none", "announced", "deleted", "delete_failed"}

(* The session is announced exactly while the main loop runs, and however  *)
(* the loop ends - stop flag, PTP timeout, new server, failing socket -    *)
(* the thread tries to withdraw the announcement before it returns.        *)
SessionWithdrawn ==
  /\ pc \in Preludes => sap = "none"
  /\ pc \in MainLoop => sap = "announced"
  /\ Ended => sap # "announced"

(* Where EAGAIN does not pass over them, both timers of the main loop are  *)
(* served in every iteration: at its head the last announcement is younger *)
(* than SapTimeout and the last sign of the PTP server younger than        *)
(* PtpTimeout.                                                             *)
TimersServed ==
  (aoip_mode = "PLAYBACK" /\ pc = "main_head") =>
    -sap_timer < SapTimeout /\ -sync.timeout_timer < PtpTimeout

(* network_cb_stop ends the thread, whatever it is doing: waiting for an   *)
(* Announce, synchronising, or sending to a socket that stays full.        *)
StopEnds == stop ~> Ended

(* The steps the thread can still take once the flag is set, counted from  *)
(* where it is: no loop goes round again.                                  *)
StepsLeft ==
  CASE pc = "announce_poll"  -> 16
    [] pc = "announce_timer" -> 15
    [] pc = "announce_head"  -> 14
    [] pc = "sync_start"     -> 13
    [] pc = "sync_event"     -> 12
    [] pc = "sync_general"   -> 11
    [] pc = "sync_timer"     -> 10
    [] pc = "sync_head"      -> 9
    [] pc = "announce"       -> 8
    [] pc = "event"          -> 7
    [] pc = "general"        -> 6
    [] pc = "rtp"            -> 5
    [] pc = "sap_timer"      -> 4
    [] pc = "ptp_timer"      -> 3
    [] pc = "main_head"      -> 2
    [] pc = "delete"         -> 1
    [] Ended                 -> 0

(* After network_cb_stop the thread has at most sixteen steps left,        *)
(* whatever arrives, whatever fails and whatever the timers say: each step *)
(* it takes leaves it fewer.  One way leads through an announcement of a   *)
(* session that is then withdrawn.                                         *)
StopCountsDown ==
  [][stop => StepsLeft' < StepsLeft]_<<ptpc, sync, ret, loopVars>>

(* When the PTP servers fall silent the thread gives up by itself, as long *)
(* as time passes and the RTP socket is not full for ever: its EAGAIN      *)
(* jumps over the PTP timer.                                               *)
SilenceEnds == TimeAndSockets => (silent ~> Ended)

(* "breaks out of the loop when the meanPathDelay is measured 10 times":   *)
(* unless it is told to stop, the client announces its session only when   *)
(* it is synchronised.  A PTP timeout in ptpc_sync_loop returns the        *)
(* elapsed time, which network_loop takes for success, so this fails.      *)
AnnouncedWhenSynced ==
  (pc = "announce" /\ ~stop) => sync.synced_count = SyncTarget
=============================================================================
