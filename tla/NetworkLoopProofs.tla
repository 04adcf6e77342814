------------------------- MODULE NetworkLoopProofs --------------------------
(***************************************************************************)
(* What NetworkLoop promises for every choice of timeouts, servers and     *)
(* sequence numbers: its state is well formed, an announced session is     *)
(* withdrawn however the loop ends, the main loop's timers are served, and *)
(* the stop flag leaves the thread a bounded number of steps.              *)
(***************************************************************************)
EXTENDS NetworkLoop, TLAPS

USE DEF Nothing, Failure

-----------------------------------------------------------------------------
(* What the PTP handlers may do to the contexts: both keep their types,    *)
(* now stays 0, and the timer is either left alone or restarted.           *)
TypesKept ==
  /\ sync' \in SyncType(Seqid \cup {0})
  /\ sync'.now = 0
  /\ sync'.timeout_timer \in {sync.timeout_timer, 0}
  /\ ptpc' \in PtpcType(Server \cup {0})

ContextsTyped ==
  /\ sync \in SyncType(Seqid \cup {0})
  /\ sync.now = 0
  /\ ptpc \in PtpcType(Server \cup {0})

(* Only a record of Message has arrived. *)
LEMMA ArrivedIsMessage ==
  ASSUME NEW m \in Received, Arrived(m)
  PROVE  m \in Message
BY DEF Received, Arrived

(* ptpc_recv_announce_msg keeps the contexts' types. *)
LEMMA AnnounceKeepsTypes ==
  ASSUME ContextsTyped, NEW m \in Received, ptpc_recv_announce_msg(m)
  PROVE  TypesKept
BY ArrivedIsMessage
   DEF ContextsTyped, TypesKept, ptpc_recv_announce_msg, Message, PtpcType, SyncType

(* ptpc_recv_sync_msg keeps the contexts' types. *)
LEMMA SyncKeepsTypes ==
  ASSUME ContextsTyped, NEW m \in Received, ptpc_recv_sync_msg(m, 0)
  PROVE  TypesKept
<1>1. m.type = "SYNC" => m \in Message
  BY DEF Received
<1>2. QED
  BY <1>1, ZenonT(60) DEF ContextsTyped, TypesKept, ptpc_recv_sync_msg, Message, SyncType

(* Every way through ptpc_recv_general_packet keeps the contexts' types.   *)
LEMMA GeneralKeepsTypes ==
  ASSUME ContextsTyped, NEW m \in Received, NEW sent \in Sent,
         ptpc_recv_general_packet(m, 0, sent)
  PROVE  TypesKept
<1> USE DEF ContextsTyped, TypesKept
<1>1. CASE RecvFails(m)
  BY <1>1 DEF RecvFails
<1>2. CASE Ignored(m)
  BY <1>2 DEF Ignored
<1>3. CASE OtherSequence(m)
  BY <1>3, ZenonT(60) DEF OtherSequence, ptp_sync_state_reset, SyncType
<1>4. CASE NewServer(m)
  BY <1>4 DEF NewServer
<1>5. CASE FollowUp(m, 0, sent)
  <2>1. m \in Message
    BY <1>5, ArrivedIsMessage DEF FollowUp, Expected, InDomain
  <2>2. QED
    BY <1>5, <2>1, ZenonT(60) DEF FollowUp, Message, SyncType
<1>6. CASE DelayResp(m)
  <2>1. m.ts = 0
    BY <1>6, ArrivedIsMessage DEF DelayResp, Expected, InDomain, Message
  <2> DEFINE s == [sync EXCEPT !.t4 = m.ts]
             delay == ptp_mean_path_delay(s)
  <2>2. s \in SyncType(Seqid \cup {0}) /\ s.synced_count \in 0 .. U8 - 1
    BY <2>1 DEF SyncType
  <2>3. delay \in Int /\ ptp_offset(delay, s) \in Int
    BY <2>2 DEF SyncType, ptp_mean_path_delay, Halved, ptp_offset
  <2>4. (s.synced_count + 1) % U8 \in 0 .. U8 - 1
    BY <2>2, WidthAssumption
  <2>5. /\ ptpc' \in {ptpc, [ptpc EXCEPT !.mean_path_delay = delay,
                                        !.ptp_offset = ptp_offset(delay, s)]}
        /\ sync' = [s EXCEPT !.synced_count = (s.synced_count + 1) % U8,
                             !.timeout_timer = sync.now]
    BY <1>6 DEF DelayResp, SyncType
  <2> HIDE DEF delay
  <2>6. ptpc' \in PtpcType(Server \cup {0})
    BY <2>3, <2>5, Zenon DEF PtpcType
  <2>7. QED
    BY <2>1, <2>2, <2>4, <2>5, <2>6, Zenon DEF SyncType
<1>7. QED
  BY <1>1, <1>2, <1>3, <1>4, <1>5, <1>6 DEF ptpc_recv_general_packet

-----------------------------------------------------------------------------
(* The thread's state stays well formed: the ages stay within the horizon, *)
(* the contexts keep their types, pc names a step.                         *)
THEOREM NetworkType == Spec => []TypeOK
<1>1. Init => TypeOK
  <2> SUFFICES ASSUME Init PROVE TypeOK
    OBVIOUS
  <2>1. sync \in SyncType(Seqid \cup {0}) /\ sync.now = 0 /\ sync.timeout_timer = 0
    BY WidthAssumption DEF Init, SyncContext, SyncType
  <2>2. ptpc \in PtpcType(Server \cup {0})
    BY DEF Init, PtpcContext, PtpcType
  <2>3. 0 \in -Horizon .. 0
    BY LoopAssumption
  <2>4. stop \in BOOLEAN /\ silent \in BOOLEAN
    BY Zenon DEF Init
  <2>5. QED
    BY <2>1, <2>2, <2>3, <2>4 DEF Init, TypeOK, Preludes
<1>2. TypeOK /\ [Next]_vars => TypeOK'
  <2> SUFFICES ASSUME TypeOK, [Next]_vars PROVE TypeOK'
    OBVIOUS
  <2>0. ContextsTyped
    BY DEF TypeOK, ContextsTyped
  <2> DEFINE Rest == UNCHANGED <<sap_timer, sap, stop, silent, aoip_mode>>
             PcOK == pc' \in Preludes \cup MainLoop \cup {"returned", "failed"}
  <2>1. ASSUME TypesKept, Rest, PcOK PROVE TypeOK'
    BY <2>1, LoopAssumption DEF TypeOK, TypesKept
  <2>2. ASSUME NEW d \in 0..MaxStep, NEW t \in -Horizon .. 0
        PROVE  Aged(t, d) \in -Horizon .. 0
    BY LoopAssumption DEF Aged
  <2>3. ASSUME NEW d \in 0..MaxStep, ReadClock(d)
        PROVE  /\ sync' \in SyncType(Seqid \cup {0})
               /\ sync'.now = 0
               /\ sync'.timeout_timer \in -Horizon .. 0
    <3>1. Aged(sync.timeout_timer, d) \in -Horizon .. 0
      BY <2>2 DEF TypeOK
    <3>2. QED
      BY <2>3, <3>1 DEF ReadClock, TypeOK, SyncType
  <2>4. SyncContext(0) \in SyncType(Seqid \cup {0}) /\ 0 \in -Horizon .. 0
    BY LoopAssumption, WidthAssumption DEF SyncContext, SyncType
  <2>5. CASE PreludeStep
    <3>1. ASSUME NEW d \in 0..MaxStep, AnnounceHead(d) \/ SyncHead(d) PROVE TypeOK'
      <4>1. ReadClock(d)
        BY <3>1 DEF AnnounceHead, SyncHead
      <4>2. QED
        BY <2>3, <3>1, <4>1 DEF AnnounceHead, SyncHead, TypeOK, Preludes
    <3>2. ASSUME NEW m \in Received, AnnouncePoll(m) PROVE TypeOK'
      BY <2>0, <2>1, <3>2, AnnounceKeepsTypes DEF AnnouncePoll, Preludes
    <3>3. ASSUME NEW m \in Received, SyncEvent(m) PROVE TypeOK'
      BY <2>0, <2>1, <3>3, SyncKeepsTypes DEF SyncEvent, Preludes
    <3>4. ASSUME NEW m \in Received, NEW sent \in Sent, SyncGeneral(m, sent)
          PROVE  TypeOK'
      BY <2>0, <2>1, <3>4, GeneralKeepsTypes DEF SyncGeneral, Preludes
    <3>5. CASE AnnounceTimer \/ SyncTimer
      BY <3>5 DEF AnnounceTimer, SyncTimer, TypeOK, Preludes
    <3>6. CASE SyncStart
      BY <2>4, <3>6 DEF SyncStart, TypeOK, Preludes, SyncContext
    <3>7. ASSUME NEW ok \in BOOLEAN, SapAnnounce(ok) PROVE TypeOK'
      BY <2>4, <3>7 DEF SapAnnounce, TypeOK, MainLoop, SyncContext
    <3>8. QED
      BY <2>5, <3>1, <3>2, <3>3, <3>4, <3>5, <3>6, <3>7 DEF PreludeStep
  <2>6. CASE MainStep
    <3>1. ASSUME NEW d \in 0..MaxStep, MainHead(d) PROVE TypeOK'
      <4>1. Aged(sap_timer, d) \in -Horizon .. 0
        BY <2>2 DEF TypeOK
      <4>2. QED
        BY <2>3, <3>1, <4>1 DEF MainHead, TypeOK, MainLoop
    <3>2. ASSUME NEW m \in Received, MainEvent(m) PROVE TypeOK'
      BY <2>0, <2>1, <3>2, SyncKeepsTypes DEF MainEvent, MainLoop
    <3>3. ASSUME NEW m \in Received, NEW sent \in Sent, MainGeneral(m, sent)
          PROVE  TypeOK'
      BY <2>0, <2>1, <3>3, GeneralKeepsTypes DEF MainGeneral, MainLoop
    <3>4. CASE RtpDone \/ RtpAgain \/ RtpFails
      BY <3>4 DEF RtpDone, RtpAgain, RtpFails, rtpUnchanged, TypeOK, MainLoop
    <3>5. ASSUME NEW ok \in BOOLEAN, SapTimer(ok) \/ SapDelete(ok) PROVE TypeOK'
      BY <2>4, <3>5 DEF SapTimer, SapDelete, TypeOK, MainLoop
    <3>6. CASE PtpTimer
      BY <3>6 DEF PtpTimer, TypeOK, MainLoop
    <3>7. QED
      BY <2>6, <3>1, <3>2, <3>3, <3>4, <3>5, <3>6 DEF MainStep
  <2>7. CASE network_cb_stop \/ ServersFallSilent \/ UNCHANGED vars
    BY <2>7, Zenon DEF network_cb_stop, ServersFallSilent, vars, loopVars, TypeOK
  <2>8. QED
    BY <2>5, <2>6, <2>7 DEF Next, Step
<1>3. QED
  BY <1>1, <1>2, PTL DEF Spec

-----------------------------------------------------------------------------
(* The SAP announcement follows the thread through its loops.  The         *)
(* invariant is inductive as it stands: every step that leaves the main    *)
(* loop goes through "delete".                                             *)
THEOREM SessionIsWithdrawn == Spec => []SessionWithdrawn
<1>1. Init => SessionWithdrawn
  BY DEF Init, SessionWithdrawn, Preludes, MainLoop, Ended
<1>2. SessionWithdrawn /\ [Next]_vars => SessionWithdrawn'
  <2> SUFFICES ASSUME SessionWithdrawn, [Next]_vars PROVE SessionWithdrawn'
    OBVIOUS
  <2> USE DEF SessionWithdrawn, Preludes, MainLoop, Ended
  <2>1. CASE PreludeStep
    BY <2>1, Zenon DEF PreludeStep, AnnounceHead, SyncHead, AnnouncePoll, SyncEvent,
                SyncGeneral, AnnounceTimer, SyncStart, SyncTimer, SapAnnounce
  <2>2. CASE MainStep
    BY <2>2, Zenon DEF MainStep, MainHead, MainEvent, MainGeneral, RtpDone, RtpAgain,
                RtpFails, rtpUnchanged, SapTimer, SapDelete, PtpTimer
  <2>3. CASE network_cb_stop
    BY <2>3 DEF network_cb_stop, loopVars
  <2>4. CASE ServersFallSilent
    BY <2>4 DEF ServersFallSilent, loopVars
  <2>5. CASE UNCHANGED vars
    BY <2>5 DEF vars, loopVars
  <2>6. QED
    BY <2>1, <2>2, <2>3, <2>4, <2>5 DEF Next, Step
<1>3. QED
  BY <1>1, <1>2, PTL DEF Spec

-----------------------------------------------------------------------------
(* Between the two timers only the first has been served in this round.    *)
TimersInv ==
  /\ TimersServed
  /\ pc = "ptp_timer" => -sap_timer < SapTimeout

(* In playback mode both timers are served in every round of the main      *)
(* loop.                                                                   *)
THEOREM TimersAreServed == Spec => []TimersServed
<1>1. Init => TimersInv
  BY DEF Init, TimersInv, TimersServed
<1>2. TypeOK /\ TimersInv /\ [Next]_vars => TimersInv'
  <2> SUFFICES ASSUME TypeOK, TimersInv, [Next]_vars PROVE TimersInv'
    OBVIOUS
  <2>0. sap_timer \in Int /\ sync.timeout_timer \in Int
    BY LoopAssumption DEF TypeOK
  <2> USE LoopAssumption DEF TimersInv, TimersServed
  <2>1. CASE PreludeStep
    <3>1. CASE \E ok \in BOOLEAN : SapAnnounce(ok)
      BY <3>1 DEF SapAnnounce, SyncContext
    <3>2. CASE ~ \E ok \in BOOLEAN : SapAnnounce(ok)
      BY <2>1, <3>2
         DEF PreludeStep, AnnounceHead, SyncHead, AnnouncePoll, SyncEvent,
             SyncGeneral, AnnounceTimer, SyncStart, SyncTimer
    <3>3. QED
      BY <3>1, <3>2
  <2>2. CASE MainStep
    <3>1. CASE \E ok \in BOOLEAN : SapTimer(ok)
      BY <2>0, <3>1 DEF SapTimer
    <3>2. CASE PtpTimer
      BY <2>0, <3>2 DEF PtpTimer
    <3>3. CASE ~ PtpTimer /\ ~ \E ok \in BOOLEAN : SapTimer(ok)
      BY <2>2, <3>3, Zenon
         DEF MainStep, MainHead, MainEvent, MainGeneral, RtpDone, RtpAgain,
             RtpFails, rtpUnchanged, SapDelete
    <3>4. QED
      BY <3>1, <3>2, <3>3
  <2>3. CASE network_cb_stop
    BY <2>3 DEF network_cb_stop, loopVars
  <2>4. CASE ServersFallSilent
    BY <2>4 DEF ServersFallSilent, loopVars
  <2>5. CASE UNCHANGED vars
    BY <2>5 DEF vars, loopVars
  <2>6. QED
    BY <2>1, <2>2, <2>3, <2>4, <2>5 DEF Next, Step
<1>3. TimersInv => TimersServed
  BY DEF TimersInv
<1>4. QED
  BY <1>1, <1>2, <1>3, NetworkType, PTL DEF Spec

-----------------------------------------------------------------------------
(* Whatever the timeouts and whatever arrives, network_cb_stop leaves the  *)
(* thread sixteen steps at most: what StopEnds adds to it is that the      *)
(* thread takes them.                                                      *)
THEOREM StopBoundsTheSteps == Spec => StopCountsDown
<1> DEFINE own == <<ptpc, sync, ret, loopVars>>
<1>1. /\ pc = "announce_poll" => StepsLeft = 16
      /\ pc = "announce_timer" => StepsLeft = 15
      /\ pc = "announce_head" => StepsLeft = 14
      /\ pc = "sync_start" => StepsLeft = 13
      /\ pc = "sync_event" => StepsLeft = 12
      /\ pc = "sync_general" => StepsLeft = 11
      /\ pc = "sync_timer" => StepsLeft = 10
      /\ pc = "sync_head" => StepsLeft = 9
      /\ pc = "announce" => StepsLeft = 8
      /\ pc = "event" => StepsLeft = 7
      /\ pc = "general" => StepsLeft = 6
      /\ pc = "rtp" => StepsLeft = 5
      /\ pc = "sap_timer" => StepsLeft = 4
      /\ pc = "ptp_timer" => StepsLeft = 3
      /\ pc = "main_head" => StepsLeft = 2
      /\ pc = "delete" => StepsLeft = 1
      /\ pc \in {"returned", "failed"} => StepsLeft = 0
  BY Zenon DEF StepsLeft, Ended
<1>2. /\ pc' = "announce_poll" => StepsLeft' = 16
      /\ pc' = "announce_timer" => StepsLeft' = 15
      /\ pc' = "announce_head" => StepsLeft' = 14
      /\ pc' = "sync_start" => StepsLeft' = 13
      /\ pc' = "sync_event" => StepsLeft' = 12
      /\ pc' = "sync_general" => StepsLeft' = 11
      /\ pc' = "sync_timer" => StepsLeft' = 10
      /\ pc' = "sync_head" => StepsLeft' = 9
      /\ pc' = "announce" => StepsLeft' = 8
      /\ pc' = "event" => StepsLeft' = 7
      /\ pc' = "general" => StepsLeft' = 6
      /\ pc' = "rtp" => StepsLeft' = 5
      /\ pc' = "sap_timer" => StepsLeft' = 4
      /\ pc' = "ptp_timer" => StepsLeft' = 3
      /\ pc' = "main_head" => StepsLeft' = 2
      /\ pc' = "delete" => StepsLeft' = 1
      /\ pc' \in {"returned", "failed"} => StepsLeft' = 0
  BY Zenon DEF StepsLeft, Ended
<1>3. ASSUME stop, PreludeStep PROVE StepsLeft' < StepsLeft
  <2>1. \/ pc = "announce_poll"  /\ pc' \in {"sync_start", "announce_timer"}
        \/ pc = "announce_timer" /\ pc' \in {"failed", "announce_head"}
        \/ pc = "announce_head"  /\ pc' = "sync_start"
        \/ pc = "sync_start"     /\ pc' = "sync_head"
        \/ pc = "sync_event"     /\ pc' \in {"failed", "sync_general"}
        \/ pc = "sync_general"   /\ pc' \in {"failed", "sync_timer"}
        \/ pc = "sync_timer"     /\ pc' \in {"failed", "announce", "sync_head"}
        \/ pc = "sync_head"      /\ pc' = "announce"
        \/ pc = "announce"       /\ pc' \in {"failed", "main_head"}
    BY <1>3, Zenon
       DEF PreludeStep, AnnounceHead, SyncHead, AnnouncePoll, SyncEvent,
           SyncGeneral, AnnounceTimer, SyncStart, SyncTimer, SapAnnounce
  <2>2. QED
    BY <1>1, <1>2, <2>1
<1>4. ASSUME stop, MainStep PROVE StepsLeft' < StepsLeft
  <2>1. \/ pc = "event"     /\ pc' \in {"delete", "general"}
        \/ pc = "general"   /\ pc' \in {"delete", "rtp"}
        \/ pc = "rtp"       /\ pc' \in {"delete", "main_head", "sap_timer"}
        \/ pc = "sap_timer" /\ pc' \in {"delete", "ptp_timer"}
        \/ pc = "ptp_timer" /\ pc' \in {"delete", "main_head"}
        \/ pc = "main_head" /\ pc' = "delete"
        \/ pc = "delete"    /\ pc' \in {"returned", "failed"}
    BY <1>4, Zenon
       DEF MainStep, MainHead, MainEvent, MainGeneral, RtpDone, RtpAgain,
           RtpFails, rtpUnchanged, SapTimer, SapDelete, PtpTimer
  <2>2. QED
    BY <1>1, <1>2, <2>1
<1>5. network_cb_stop \/ ServersFallSilent \/ UNCHANGED vars => UNCHANGED own
  BY DEF network_cb_stop, ServersFallSilent, vars
<1>6. [Next]_vars => [stop => StepsLeft' < StepsLeft]_own
  BY <1>3, <1>4, <1>5 DEF Next, Step
<1>7. QED
  BY <1>6, PTL DEF Spec, StopCountsDown
=============================================================================
