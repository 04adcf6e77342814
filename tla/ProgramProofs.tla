--------------------------- MODULE ProgramProofs ----------------------------
(***************************************************************************)
(* Proofs about the programs: the steps of rtpdump and tonegen with        *)
(* network_loop as the network thread are steps of Device and of           *)
(* NetworkLoop, what they leave announced, for every session the message   *)
(* that build_sap_msg makes of it, and the clients' walk through their own *)
(* lists of calls.                                                         *)
(***************************************************************************)
EXTENDS Programs, DeviceProofs, WellFoundedInduction

(* Whatever network_loop does, and whatever the callbacks of tonegen never *)
(* do, the steps of rtpdump and tonegen are steps of Device.               *)
LEMMA DeviceSteps ==
  ASSUME program \in Devices, [ProgramNext]_progVars
  PROVE  (program \in Devices)' /\ [Next]_vars
<1>1. CASE NetworkThread
  BY <1>1 DEF NetworkThread, NetworkFails, Next, Threads, vars, flags, held
<1>2. CASE AudioThread
  BY <1>2 DEF AudioThread, Next, Threads
<1>3. CASE Signal
  BY <1>3 DEF Signal, Next
<1>4. CASE Context
  BY <1>4 DEF Context, Next, Main
<1>5. CASE DeviceMain
  BY <1>5 DEF DeviceMain, Next, Main
<1>6. CASE UNCHANGED progVars
  BY <1>6 DEF progVars
<1>7. QED
  BY <1>1, <1>2, <1>3, <1>4, <1>5, <1>6, Zenon
     DEF ProgramNext, MainThread, SimplePtpc, SimpleSapc, SimpleRtpcRecv, Devices

(* Between them, main() of a device and its threads do to flags, threads   *)
(* and resources what Device says and nothing else, whatever the timeouts  *)
(* are and whatever PTP servers send.                                      *)
THEOREM ProgramsStepAsDevices == ProgramSpec => StepsOfDevice
<1>1. ProgramInit => (program \in Devices => Init)
  BY DEF ProgramInit, Init, Creation, Devices, Config, rtpdump_config, tonegen_config
<1>2. [ProgramNext]_progVars => [(program \in Devices) => Next]_vars
  BY DeviceSteps
<1>3. QED
  BY <1>1, <1>2, PTL DEF ProgramSpec, StepsOfDevice

(* A device's network thread and main() go together: network_loop has not  *)
(* begun before the thread is there, and has returned when it has ended;   *)
(* main gets to the destruction only past pthread_join(ntth).              *)
LoopInv ==
  program \in Devices =>
    /\ Net!SessionWithdrawn
    /\ sap = "delete_failed" => npc = "failed" /\ sap_msg.flags = "DELETION"
    /\ net = "none" => npc = "announce_head"
    /\ net = "ended" => npc \in {"returned", "failed"}
    /\ main \in {"create", "created"} => net = "none"
    /\ main \in {"create", "created", "start_audio", "failed"} => audio = "none"
    /\ main \in {"join_audio", "destroy", "done"} => net = "ended"

(* It holds when main begins.                                              *)
LEMMA LoopInit == ProgramInit => LoopInv
BY DEF ProgramInit, LoopInv, Net!SessionWithdrawn, Net!Preludes, Net!MainLoop, Net!Ended, Devices

(* network_loop leaves its announcement only through the deletion.         *)
LEMMA LoopWithdraws ==
  ASSUME Net!SessionWithdrawn, Net!Step
  PROVE  Net!SessionWithdrawn'
<1> USE DEF Net!SessionWithdrawn, Net!Preludes, Net!MainLoop, Net!Ended
<1>1. CASE Net!PreludeStep
  BY <1>1 DEF Net!PreludeStep, Net!AnnounceHead, Net!SyncHead, Net!AnnouncePoll, Net!SyncEvent,
              Net!SyncGeneral, Net!AnnounceTimer, Net!SyncStart, Net!SyncTimer, Net!SapAnnounce
<1>2. CASE Net!MainStep
  BY <1>2, Zenon DEF Net!MainStep, Net!MainHead, Net!MainEvent, Net!MainGeneral, Net!RtpDone,
              Net!RtpAgain, Net!RtpFails, Net!rtpUnchanged, Net!SapTimer, Net!SapDelete,
              Net!PtpTimer
<1>3. QED
  BY <1>1, <1>2, SMTT(60) DEF Net!Step

(* The deletion fails in the one step that sends it, and this is the last. *)
LEMMA DeletionFails ==
  ASSUME Net!Step, sap = "delete_failed" => npc = "failed", sap' = "delete_failed"
  PROVE  npc = "delete" /\ npc' = "failed"
<1>1. CASE Net!PreludeStep
  BY <1>1 DEF Net!PreludeStep, Net!AnnounceHead, Net!SyncHead, Net!AnnouncePoll, Net!SyncEvent,
              Net!SyncGeneral, Net!AnnounceTimer, Net!SyncStart, Net!SyncTimer, Net!SapAnnounce
<1>2. CASE Net!MainStep
  BY <1>2, ZenonT(60) DEF Net!MainStep, Net!MainHead, Net!MainEvent, Net!MainGeneral, Net!RtpDone,
              Net!RtpAgain, Net!RtpFails, Net!rtpUnchanged, Net!SapTimer, Net!SapDelete,
              Net!PtpTimer
<1>3. QED
  BY <1>1, <1>2, SMTT(60) DEF Net!Step

(* No step of any program breaks that.                                     *)
LEMMA LoopStep == LoopInv /\ [ProgramNext]_progVars => LoopInv'
<1> SUFFICES ASSUME LoopInv, [ProgramNext]_progVars, program' \in Devices PROVE LoopInv'
  BY DEF LoopInv
<1>0. program' = program
  BY DEF ProgramNext, MainThread, NetworkThread, AudioThread, Signal, Context, DeviceMain,
         SimplePtpc, SimpleSapc, SimpleRtpcRecv, clientUnchanged, progVars
<1>1. CASE NetworkThread
  <2>1. Net!SessionWithdrawn'
    BY <1>0, <1>1, LoopWithdraws DEF NetworkThread, LoopInv
  <2>2. /\ net = "running" /\ net' = IF npc' \in {"returned", "failed"} THEN "ended" ELSE net
        /\ main' = main /\ audio' = audio
    BY <1>1 DEF NetworkThread
  <2>3. sap' = "delete_failed" => npc' = "failed" /\ sap_msg'.flags = "DELETION"
    <3> SUFFICES ASSUME sap' = "delete_failed" PROVE npc' = "failed" /\ sap_msg'.flags = "DELETION"
      BY Zenon
    <3>1. npc = "delete" /\ npc' = "failed"
      BY <1>0, <1>1, DeletionFails, Zenon DEF NetworkThread, LoopInv
    <3> QED BY <1>1, <3>1 DEF NetworkThread, aoip_build_sap_msg, build_sap_msg
  <2>4. QED
    BY <1>0, <2>1, <2>2, <2>3 DEF LoopInv
<1>2. ASSUME UNCHANGED <<npc, sap>>
      PROVE  Net!SessionWithdrawn <=> Net!SessionWithdrawn'
  BY <1>2 DEF Net!SessionWithdrawn, Net!Preludes, Net!MainLoop, Net!Ended
<1>3. CASE AudioThread
  <2>1. UNCHANGED <<npc, sap, sap_msg, net, main>> /\ main \notin {"failed", "done"} /\ audio # "none"
    BY <1>3, Zenon
         DEF AudioThread, AudioOpen, AudioStops, AudioClose, AudioFails, loopVars, Alive, held,
             flags
  <2>2. QED
    BY <1>0, <1>2, <2>1 DEF LoopInv
<1>4. CASE Signal
  BY <1>0, <1>2, <1>4, SMTT(60) DEF Signal, sig_handler, loopVars, threads, LoopInv
<1>5. CASE Context
  BY <1>0, <1>2, <1>5, ZenonT(60)
       DEF Context, Create, Destroy, CreateFails, loopVars, threads, LoopInv
<1>6. CASE DeviceMain
  BY <1>0, <1>2, <1>6, Zenon
     DEF DeviceMain, StartNetwork, StartAudio, Wait, network_cb_stop, audio_cb_stop, JoinNetwork,
         JoinAudio, loopVars, threads, LoopInv
<1>7. CASE UNCHANGED progVars
  BY <1>0, <1>2, <1>7 DEF progVars, vars, loopVars, LoopInv
<1>8. QED
  BY <1>0, <1>1, <1>3, <1>4, <1>5, <1>6, <1>7
     DEF ProgramNext, MainThread, SimplePtpc, SimpleSapc, SimpleRtpcRecv, Devices

(* A device that leaves its session announced behind has failed to create  *)
(* its audio thread, or to send the deletion message: every other end of   *)
(* main() waits for network_loop, which does not return without this       *)
(* message, at whichever step SIGINT, a timeout or an error finds it.      *)
THEOREM OnlyFailureLeavesSession == ProgramSpec => []SessionLeftBehind
<1>1. LoopInv => SessionLeftBehind
  BY SMTT(60) DEF LoopInv, SessionLeftBehind, Alive, Net!SessionWithdrawn, Net!Ended
<1>2. QED
  BY <1>1, LoopInit, LoopStep, PTL DEF ProgramSpec

-----------------------------------------------------------------------------
(* Once there is a message, no loop that selects a server is entered again, *)
(* and the message of a device names the server its client follows.        *)
ServerInv ==
  /\ program \in Devices => DOMAIN ptpc = {"ptp_server_id", "mean_path_delay", "ptp_offset"}
  /\ sap_msg # NoMessage =>
       /\ npc \notin Net!Preludes \cup {"sapc_start"}
       /\ program \in Devices \cup {"simple-sapc"}
       /\ program \in Devices => sap_msg.ptp_server_id = ptpc.ptp_server_id

(* The main loop of network_loop changes everything of ptpc_ctx_t but the  *)
(* server.                                                                 *)
LEMMA ServerStep ==
  ASSUME ServerInv, [ProgramNext]_progVars
  PROVE  /\ ServerInv'
         /\ sap_msg # NoMessage => sap_msg'.ptp_server_id = sap_msg.ptp_server_id
<1>1. CASE UNCHANGED <<sap_msg, npc, ptpc, program>>
  BY <1>1 DEF ServerInv, Net!Preludes
<1>2. CASE NetworkThread
  <2>1. DOMAIN ptpc' = DOMAIN ptpc
    BY <1>2, ZenonT(60) DEF NetworkThread, Net!Step, Net!PreludeStep, Net!MainStep,
       Net!AnnounceHead, Net!SyncHead, Net!AnnouncePoll, Net!SyncEvent,
       Net!SyncGeneral, Net!AnnounceTimer, Net!SyncStart, Net!SyncTimer, Net!SapAnnounce,
       Net!MainHead, Net!MainEvent, Net!MainGeneral, Net!RtpDone,
       Net!RtpAgain, Net!RtpFails, Net!rtpUnchanged, Net!SapTimer, Net!SapDelete, Net!PtpTimer,
       Net!ptpc_recv_announce_msg, Net!ptpc_recv_sync_msg, Net!ptpc_recv_general_packet,
       Net!RecvFails, Net!Ignored, Net!OtherSequence, Net!NewServer, Net!FollowUp, Net!DelayResp
  <2>2. CASE Net!PreludeStep
    <3>1. npc \in Net!Preludes /\ sap_msg = NoMessage
      BY <2>2, Zenon DEF Net!PreludeStep, Net!AnnounceHead, Net!SyncHead, Net!AnnouncePoll, Net!SyncEvent,
              Net!SyncGeneral, Net!AnnounceTimer, Net!SyncStart, Net!SyncTimer, Net!SapAnnounce,
              Net!Preludes, ServerInv
    <3>2. CASE npc = "announce"
      <4>1. npc' \in {"main_head", "failed"} /\ ptpc' = ptpc
        BY <2>2, <3>2, Zenon
             DEF Net!PreludeStep, Net!AnnounceHead, Net!SyncHead, Net!AnnouncePoll, Net!SyncEvent,
              Net!SyncGeneral, Net!AnnounceTimer, Net!SyncStart, Net!SyncTimer, Net!SapAnnounce
      <4>2. sap_msg'.ptp_server_id = ptpc.ptp_server_id
        BY <1>2, <3>2 DEF NetworkThread, aoip_build_sap_msg, build_sap_msg
      <4>3. QED
        BY <1>2, <2>1, <3>1, <4>1, <4>2, SMTT(60) DEF NetworkThread, ServerInv, Net!Preludes
    <3>3. CASE npc # "announce"
      <4>1. sap_msg' = NoMessage
        BY <1>2, <3>1, <3>3 DEF NetworkThread, Net!Preludes
      <4>2. QED
        BY <1>2, <2>1, <3>1, <4>1 DEF NetworkThread, ServerInv
    <3>4. QED
      BY <3>2, <3>3
  <2>3. CASE Net!MainStep
    <3>1. npc \notin Net!Preludes /\ npc' \notin Net!Preludes \cup {"sapc_start"}
      BY <2>3, Zenon DEF Net!MainStep, Net!MainHead, Net!MainEvent, Net!MainGeneral, Net!RtpDone,
              Net!RtpAgain, Net!RtpFails, Net!rtpUnchanged, Net!SapTimer, Net!SapDelete,
              Net!PtpTimer, Net!Preludes
    <3>2. ptpc'.ptp_server_id = ptpc.ptp_server_id
      BY <1>2, <2>3, ZenonT(60)
           DEF NetworkThread, ServerInv, Net!MainStep, Net!MainHead, Net!MainEvent,
               Net!MainGeneral, Net!RtpDone,
              Net!RtpAgain, Net!RtpFails, Net!rtpUnchanged, Net!SapTimer, Net!SapDelete,
              Net!PtpTimer,
              Net!ptpc_recv_sync_msg, Net!ptpc_recv_general_packet,
              Net!RecvFails, Net!Ignored, Net!OtherSequence, Net!NewServer, Net!FollowUp,
              Net!DelayResp
    <3>3. sap_msg' = sap_msg \/ sap_msg'.ptp_server_id = ptpc.ptp_server_id
      BY <1>2, <3>1 DEF NetworkThread, Net!Preludes, aoip_build_sap_msg, build_sap_msg
    <3>4. QED
      BY <1>2, <2>1, <3>1, <3>2, <3>3, SMTT(60) DEF ServerInv, NetworkThread, Net!Preludes
  <2>4. QED
    BY <1>2, <2>2, <2>3, SMTT(60) DEF NetworkThread, Net!Step
<1>3. CASE AudioThread \/ Signal \/ Context \/ DeviceMain \/ UNCHANGED progVars
  BY <1>1, <1>3, ZenonT(60) DEF AudioThread, Signal, Context, DeviceMain, progVars, loopVars
<1>4. CASE SimplePtpc
  <2>1. program = "simple-ptpc" /\ program' = program /\ sap_msg' = sap_msg
    BY <1>4, SMTT(60) DEF SimplePtpc, clientUnchanged
  <2>2. QED
    BY <2>1 DEF ServerInv, Devices
<1>5. CASE SimpleSapc
  <2>1. program = "simple-sapc" /\ program' = program
    BY <1>5 DEF SimpleSapc, clientUnchanged
  <2>2. npc' \notin Net!Preludes \cup {"sapc_start"} /\ (npc = "sapc_start" \/ sap_msg' = sap_msg)
    BY <1>5, SMTT(60) DEF SimpleSapc, SapcStart, SapcHead, SapcTimer, Net!Preludes
  <2>3. QED
    BY <2>1, <2>2 DEF ServerInv, Devices, Net!Preludes
<1>6. CASE SimpleRtpcRecv
  <2>1. program = "simple-rtpc-recv" /\ program' = program /\ sap_msg' = sap_msg
    BY <1>6 DEF SimpleRtpcRecv, clientUnchanged
  <2>2. QED
    BY <2>1 DEF ServerInv, Devices
<1>7. QED
  BY <1>2, <1>3, <1>4, <1>5, <1>6, SMTT(60) DEF ProgramNext, MainThread

(* The deletion a device sends names the server of its announcement, for   *)
(* whatever servers there are and whatever they send: network_loop gives   *)
(* up rather than follow another server once the session is announced.     *)
THEOREM SameServerDeleted == ProgramSpec => DeletesWhatItAnnounced
<1>1. ProgramInit => ServerInv
  BY DEF ProgramInit, ServerInv, Net!PtpcContext
<1>2. ServerInv /\ [ProgramNext]_progVars =>
        /\ ServerInv'
        /\ [sap_msg # NoMessage => sap_msg'.ptp_server_id = sap_msg.ptp_server_id]_progVars
  BY ServerStep
<1>3. QED
  BY <1>1, <1>2, PTL DEF ProgramSpec, DeletesWhatItAnnounced

-----------------------------------------------------------------------------
(***************************************************************************)
(* The SAP messages.                                                       *)
(***************************************************************************)

(* A byte has one to three digits, an int at most ten. *)
LEMMA DigitsBound ==
  ASSUME NEW n \in Int
  PROVE  Digits(n) \in 1..10 /\ (n < 1000 => Digits(n) \in 1..3)
<1> DEFINE P(k) == (k > 1 => Power[k - 1] <= n) /\ (k < 10 => n < Power[k])
<1>1. /\ Power[1] = 10 /\ Power[2] = 100 /\ Power[3] = 1000 /\ Power[4] = 10000
      /\ Power[5] = 100000 /\ Power[6] = 1000000 /\ Power[7] = 10000000
      /\ Power[8] = 100000000 /\ Power[9] = 1000000000
  BY DEF Power
<1>2. \E k \in 1..10 : P(k)
  <2>1. CASE n < 10
    <3>1. P(1)
      BY <1>1, <2>1
    <3> QED BY <3>1
  <2>2. CASE 10 <= n /\ n < 100000
    <3>1. P(2) \/ P(3) \/ P(4) \/ P(5)
      BY <1>1, <2>2
    <3> QED BY <3>1
  <2>3. CASE 100000 <= n
    <3>1. P(6) \/ P(7) \/ P(8) \/ P(9) \/ P(10)
      BY <1>1, <2>3
    <3> QED BY <3>1
  <2> QED BY <2>1, <2>2, <2>3
<1>3. Digits(n) \in 1..10 /\ P(Digits(n))
  <2>1. Digits(n) = CHOOSE k \in 1..10 : P(k)
    BY DEF Digits
  <2> HIDE DEF P
  <2> QED BY <1>2, <2>1, Zenon
<1>4. ASSUME NEW k \in 4..10, P(k) PROVE 1000 <= n
  BY <1>1, <1>4
<1> QED BY <1>3, <1>4

(* So does a number in the text, a negative one with its sign. *)
LEMMA IntLenBound ==
  ASSUME NEW n \in Int
  PROVE  IntLen(n) \in 1..11 /\ (n \in 0..255 => IntLen(n) \in 1..3)
<1>1. CASE n < 0
  <2>1. -n \in Int
    OBVIOUS
  <2>2. Digits(-n) \in 1..10
    BY <2>1, DigitsBound
  <2> QED BY <1>1, <2>2 DEF IntLen
<1>2. CASE ~(n < 0)
  BY <1>2, DigitsBound DEF IntLen
<1> QED BY <1>1, <1>2, Zenon

(* inet_ntoa writes seven to fifteen characters. *)
LEMMA AddrLenBound ==
  ASSUME NEW a \in Address
  PROVE  AddrLen(a) \in 7..15
<1>1. a[1] \in 0..255 /\ a[2] \in 0..255 /\ a[3] \in 0..255 /\ a[4] \in 0..255
  BY DEF Address
<1>2. \A n \in 0..255 : Digits(n) \in 1..3
  BY DigitsBound
<1>3. PICK w \in 1..3, x \in 1..3, y \in 1..3, z \in 1..3 :
        Digits(a[1]) = w /\ Digits(a[2]) = x /\ Digits(a[3]) = y /\ Digits(a[4]) = z
  BY <1>1, <1>2, ZenonT(60)
<1>4. AddrLen(a) = 3 + w + x + y + z
  BY <1>3, Zenon DEF AddrLen
<1> QED BY <1>4, SMTT(60)

(* What the twelve snprintf calls return.                                  *)
LEMMA DescriptionBounds ==
  ASSUME NEW c \in SessionType
  PROVE  LET d == Descriptions(c)
         IN  /\ DOMAIN d = 1..12
             /\ d[1] = 5 /\ d[2] \in 24..52 /\ d[3] = 4 + c.name.len /\ d[4] = 27
             /\ d[5] = 14 + AddrLen(c.mcast) /\ d[6] = 7 /\ d[7] = 25 /\ d[8] \in 20..34
             /\ d[9] = 12 /\ d[10] = 11 /\ d[11] = 57 /\ d[12] = 21
             /\ AddrLen(c.mcast) \in 7..15 /\ c.name.len \in 0..31
<1> DEFINE d == Descriptions(c)
           o == 15 + 2 * IntLen(c.time) + AddrLen(c.local)
           n == 4 + c.name.len
           i == 14 + AddrLen(c.mcast)
           m == 17 + IntLen(c.format) + IntLen(c.rate) + IntLen(c.channels)
<1>1. /\ c.time \in Int /\ c.rate \in Int /\ c.format \in 0..255 /\ c.channels \in 0..255
      /\ c.local \in Address /\ c.mcast \in Address /\ c.name.len \in 0..31
  BY Zenon DEF SessionType, Name
<1>2. /\ IntLen(c.time) \in 1..11 /\ IntLen(c.rate) \in 1..11
      /\ IntLen(c.format) \in 1..3 /\ IntLen(c.channels) \in 1..3
  BY <1>1, IntLenBound, SMTT(60)
<1>3. AddrLen(c.local) \in 7..15 /\ AddrLen(c.mcast) \in 7..15
  BY <1>1, AddrLenBound, Zenon
<1>4. o \in 24..52 /\ m \in 20..34
  BY <1>2, <1>3
<1>5. d = <<5, o, n, 27, i, 7, 25, m, 12, 11, 57, 21>>
  BY Zenon DEF Descriptions
<1> HIDE DEF d, o, n, i, m
<1>6. /\ DOMAIN d = 1..12
      /\ d[1] = 5 /\ d[2] = o /\ d[3] = n /\ d[4] = 27 /\ d[5] = i /\ d[6] = 7 /\ d[7] = 25
      /\ d[8] = m /\ d[9] = 12 /\ d[10] = 11 /\ d[11] = 57 /\ d[12] = 21
  BY <1>5
<1> QED BY <1>1, <1>3, <1>4, <1>6, Zenon DEF d, n, i

(* Where the s= and the c= line start, and where the text ends.            *)
LEMMA TextOffsets ==
  ASSUME NEW c \in SessionType
  PROVE  LET d == Descriptions(c)
         IN  /\ NameLine(d) \in 29..57
             /\ AddressLine(d) = NameLine(d) + 31 + c.name.len
             /\ TextLen(d) \in AddressLine(d) + 174 .. 512
<1> DEFINE d == Descriptions(c)
<1>1. /\ d[1] = 5 /\ d[2] \in 24..52 /\ d[3] = 4 + c.name.len /\ d[4] = 27
      /\ d[5] \in 21..29 /\ d[6] = 7 /\ d[7] = 25 /\ d[8] \in 20..34
      /\ d[9] = 12 /\ d[10] = 11 /\ d[11] = 57 /\ d[12] = 21 /\ c.name.len \in 0..31
  BY DescriptionBounds
<1> HIDE DEF d
<1>2. NameLine(d) \in 29..57
  BY <1>1 DEF NameLine
<1>3. AddressLine(d) = NameLine(d) + 31 + c.name.len /\ AddressLine(d) \in Int
  BY <1>1, <1>2, SMTT(60) DEF AddressLine
<1>4. TextLen(d) \in AddressLine(d) + 174 .. 512
  <2>1. PICK x \in 21..29, y \in 20..34 : d[5] = x /\ d[8] = y
    BY <1>1, ZenonT(60)
  <2>2. TextLen(d) = AddressLine(d) + x + 7 + 25 + y + 12 + 11 + 57 + 21
    BY <1>1, <2>1, Zenon DEF TextLen
  <2>3. AddressLine(d) <= 119
    BY <1>1, <1>2, <1>3
  <2> QED BY <1>3, <2>2, <2>3
<1> QED BY <1>2, <1>3, <1>4, Zenon DEF d

(* No description is cut off, nor is the text.                             *)
LEMMA MessageFits ==
  ASSUME NEW c \in SessionType, NEW f, NEW id
  PROVE  LET m == build_sap_msg(f, c, id)
         IN  /\ \A k \in DOMAIN m.sdp : m.sdp[k] < MAX_SDP_DESC_SIZE
             /\ m.len - SAP_HDR_SIZE <= MAX_SDP_MSG_SIZE
<1> DEFINE m == build_sap_msg(f, c, id)
           d == Descriptions(c)
<1>1. m.sdp = d /\ m.len = 24 + TextLen(d)
  BY Zenon DEF build_sap_msg, SAP_HDR_SIZE
<1>2. TextLen(d) \in Int /\ TextLen(d) <= 512
  BY TextOffsets
<1>3. \A k \in DOMAIN d : d[k] < 64
  <2>1. /\ DOMAIN d = 1..12
        /\ d[1] < 64 /\ d[2] < 64 /\ d[3] < 64 /\ d[4] < 64 /\ d[5] < 64 /\ d[6] < 64
        /\ d[7] < 64 /\ d[8] < 64 /\ d[9] < 64 /\ d[10] < 64 /\ d[11] < 64 /\ d[12] < 64
    BY DescriptionBounds
  <2> HIDE DEF d
  <2> QED BY <2>1, SMTT(60)
<1> HIDE DEF m, d
<1>4. QED
  BY <1>1, <1>2, <1>3 DEF MAX_SDP_MSG_SIZE, SAP_HDR_SIZE, MAX_SDP_DESC_SIZE, m

(* An address is not the absence of one.                                   *)
LEMMA AddressFound == NotFound \notin Address
<1> SUFFICES ASSUME NotFound \in Address PROVE FALSE
  OBVIOUS
<1>1. DOMAIN NotFound = {} /\ DOMAIN NotFound = 1..4
  BY DEF NotFound, Address
<1> QED BY <1>1, SMTT(60)

(* A set of marks that begins with c and has one mark per place.           *)
LEMMA FirstMark ==
  ASSUME NEW S, \A x \in S : x.at \in Int, \A x, y \in S : x.at = y.at => x = y,
         NEW c \in S, \A y \in S : c.at <= y.at
  PROVE  (CHOOSE x \in S : \A y \in S : x.at <= y.at) = c
<1> DEFINE d == CHOOSE x \in S : \A y \in S : x.at <= y.at
<1>1. d \in S /\ \A y \in S : d.at <= y.at
  BY Zenon
<1> HIDE DEF d
<1>2. d.at \in Int /\ c.at \in Int /\ d.at <= c.at /\ c.at <= d.at
  BY <1>1, Zenon
<1>3. d.at = c.at
  BY <1>2
<1>4. d = c
  BY <1>1, <1>3, Zenon
<1> QED BY <1>4, Zenon DEF d

(* The search comes to the c= line exactly when the name holds no "c=",    *)
(* and takes every address but the longest ones; otherwise it ends at the  *)
(* first "c=" of the name.                                                 *)
LEMMA MessageReadBack ==
  ASSUME NEW c \in SessionType, NEW f, NEW id
  PROVE  search_rtp_addr_from_sap_msg(build_sap_msg(f, c, id)) = c.mcast <=>
           /\ AddrLen(c.mcast) # 15
           /\ \A x \in c.name.marks :
                (\A y \in c.name.marks : x.at <= y.at) => x.addr = c.mcast
<1> DEFINE m == build_sap_msg(f, c, id)
           a == NameLine(Descriptions(c))
           b == AddressLine(Descriptions(c))
           t == TextLen(Descriptions(c))
<1>1. m.len = 24 + t /\ m.session = c /\ NameLine(m.sdp) = a /\ AddressLine(m.sdp) = b
  BY Zenon DEF build_sap_msg, SAP_HDR_SIZE
<1>2. a \in 29..57 /\ b = a + 31 + c.name.len /\ t \in b + 174 .. 512
  BY TextOffsets
<1> DEFINE N == c.name.marks
           line == [at |-> b, addr |-> c.mcast]
           Put(x) == [x EXCEPT !.at = a + 2 + x.at]
<1>3. /\ c.name.len \in 0..31 /\ N \subseteq Mark
      /\ \A x \in N : x.at + (IF x.addr = NotFound THEN 2 ELSE 10 + AddrLen(x.addr)) <= c.name.len
      /\ \A x, y \in N : x.at = y.at => x = y
      /\ c.mcast \in Address /\ AddrLen(c.mcast) \in 7..15
  BY AddrLenBound, Zenon DEF SessionType, Name
<1>4. \A x \in N : /\ x.at \in Nat /\ x.at + 2 <= c.name.len
                   /\ x.addr \in Address \cup {NotFound}
                   /\ Put(x).at = a + 2 + x.at /\ Put(x).addr = x.addr
  <2> SUFFICES ASSUME NEW x \in N
               PROVE  /\ x.at \in Nat /\ x.at + 2 <= c.name.len
                      /\ x.addr \in Address \cup {NotFound}
                      /\ Put(x).at = a + 2 + x.at /\ Put(x).addr = x.addr
    BY Zenon
  <2>1. x \in Mark /\ x.at \in Nat /\ x.addr \in Address \cup {NotFound}
    BY <1>3 DEF Mark
  <2>2. Put(x).at = a + 2 + x.at /\ Put(x).addr = x.addr
    BY <2>1 DEF Mark
  <2>3. x.addr # NotFound => AddrLen(x.addr) \in 7..15
    BY <2>1, AddrLenBound, Zenon
  <2>4. x.at + (IF x.addr = NotFound THEN 2 ELSE 10 + AddrLen(x.addr)) <= c.name.len
    BY <1>3, Zenon
  <2>5. x.at + 2 <= c.name.len
    BY <1>3, <2>1, <2>3, <2>4, SMTT(60)
  <2> QED BY <2>1, <2>2, <2>5, Zenon
<1> HIDE DEF m, a, b, t
<1>5. Hits(m) = {line} \cup {Put(x) : x \in N}
  <2>1. Marks(m) = {line} \cup {Put(x) : x \in N}
    BY <1>1, Zenon DEF Marks
  <2>2. line.at = b
    OBVIOUS
  <2> HIDE DEF Put, line, N
  <2>3. 5 <= b /\ b <= m.len - 1 - MIN_SAP_C_MSG_SIZE
    BY <1>1, <1>2, <1>3 DEF MIN_SAP_C_MSG_SIZE
  <2>4. \A x \in N : 5 <= Put(x).at /\ Put(x).at <= m.len - 1 - MIN_SAP_C_MSG_SIZE
    BY <1>1, <1>2, <1>3, <1>4 DEF MIN_SAP_C_MSG_SIZE
  <2>5. \A h \in Marks(m) : 5 <= h.at /\ h.at <= m.len - 1 - MIN_SAP_C_MSG_SIZE
    BY <2>1, <2>2, <2>3, <2>4, Zenon
  <2> QED BY <2>1, <2>5, Zenon DEF Hits
<1>6. line.at = b /\ line.addr = c.mcast
  OBVIOUS
<1> HIDE DEF Put, line, N
<1>7. \A h \in Hits(m) : h.at \in Int
  BY <1>2, <1>3, <1>4, <1>5, <1>6
<1>8. \A x \in N : ~(b <= Put(x).at)
  BY <1>2, <1>3, <1>4
<1>9. \A x, y \in N : Put(x).at <= Put(y).at <=> x.at <= y.at
  BY <1>2, <1>4
<1>10. \A g, h \in Hits(m) : g.at = h.at => g = h
  <2>1. \A x, y \in N : Put(x).at = Put(y).at => x = y
    <3> SUFFICES ASSUME NEW x \in N, NEW y \in N, Put(x).at = Put(y).at PROVE x = y
      BY Zenon
    <3>1. x.at = y.at
      BY <1>2, <1>4
    <3> QED BY <1>3, <3>1, Zenon DEF N
  <2>2. \A x \in N : Put(x).at # line.at
    BY <1>2, <1>3, <1>4, <1>6
  <2> QED BY <1>5, <2>1, <2>2, Zenon
<1>11. \A h \in Hits(m) : (\A g \in Hits(m) : h.at <= g.at) =>
          search_rtp_addr_from_sap_msg(m) = AddressBehind(h)
  BY <1>7, <1>10, FirstMark, Zenon DEF search_rtp_addr_from_sap_msg
<1>12. c.mcast # NotFound /\ (AddrLen(c.mcast) < 15 <=> AddrLen(c.mcast) # 15)
  BY <1>3, AddressFound
<1>13. ASSUME NEW h, h.addr = c.mcast
       PROVE  AddressBehind(h) = c.mcast <=> AddrLen(c.mcast) # 15
  BY <1>12, <1>13, Zenon DEF AddressBehind, MAX_IPV4_ASCII_SIZE
<1>14. ASSUME NEW h, h.addr # c.mcast PROVE AddressBehind(h) # c.mcast
  BY <1>12, <1>14, Zenon DEF AddressBehind
<1>15. CASE N = {}
  <2>1. Hits(m) = {line} /\ line.at <= line.at
    BY <1>2, <1>3, <1>5, <1>6, <1>15
  <2>2. search_rtp_addr_from_sap_msg(m) = AddressBehind(line)
    BY <1>11, <2>1, Zenon
  <2> QED BY <1>6, <1>13, <1>15, <2>2, Zenon DEF m, N
<1>16. CASE N # {}
  <2>1. PICK x \in N : \A y \in N : x.at <= y.at
    <3> DEFINE P == {y.at : y \in N}
    <3>1. P \subseteq Nat /\ P # {}
      BY <1>4, <1>16, Zenon
    <3> HIDE DEF P
    <3>2. PICK p \in P : \A q \in P : ~(<<q, p>> \in OpToRel(<, Nat))
      BY <3>1, NatLessThanWellFounded, WFMin, Zenon
    <3>3. \A q \in P : ~(q < p)
      BY <3>1, <3>2, Zenon DEF OpToRel
    <3>4. \A q \in P : p <= q
      BY <3>1, <3>3
    <3> QED BY <3>4, Zenon DEF P
  <2>2. \A h \in Hits(m) : Put(x).at <= h.at
    <3>1. Put(x).at <= line.at
      BY <1>2, <1>3, <1>4, <1>6, <1>8
    <3> QED BY <1>5, <1>9, <2>1, <3>1, Zenon
  <2>3. Put(x) \in Hits(m)
    BY <1>5, <2>1, Zenon
  <2>4. search_rtp_addr_from_sap_msg(m) = AddressBehind(Put(x))
    BY <1>11, <2>2, <2>3, Zenon
  <2>5. \A y \in N : (\A z \in N : y.at <= z.at) => y = x
    <3> SUFFICES ASSUME NEW y \in N, \A z \in N : y.at <= z.at PROVE y = x
      BY Zenon
    <3>1. y.at = x.at
      BY <1>4, <2>1, SMTT(60)
    <3> QED BY <1>3, <3>1, Zenon DEF N
  <2>6. Put(x).addr = x.addr
    BY <1>4, Zenon
  <2>7. (\A y \in N : (\A z \in N : y.at <= z.at) => y.addr = c.mcast) <=> x.addr = c.mcast
    BY <2>1, <2>5, Zenon
  <2>8. search_rtp_addr_from_sap_msg(m) = c.mcast <=>
          AddrLen(c.mcast) # 15 /\ x.addr = c.mcast
    BY <1>13, <1>14, <2>4, <2>6, Zenon
  <2> QED BY <2>7, <2>8, Zenon DEF m, N
<1> QED BY <1>15, <1>16, Zenon

(* A message is one that build_sap_msg made of the program's session.      *)
MessageInv ==
  /\ program \in Devices \cup Clients
  /\ session \in SessionType
  /\ sap_msg = NoMessage \/ \E f \in {"ANNOUNCE", "DELETION"} :
       sap_msg = build_sap_msg(f, session, sap_msg.ptp_server_id)

(* Nothing else writes to ctx->sap.sap_msg.                                *)
LEMMA MessageStep == MessageInv /\ [ProgramNext]_progVars => MessageInv'
<1> SUFFICES ASSUME MessageInv, [ProgramNext]_progVars PROVE MessageInv'
  BY Zenon
<1>1. UNCHANGED <<program, session>>
  BY Zenon DEF ProgramNext, MainThread, NetworkThread, AudioThread, Signal, Context, DeviceMain,
         SimplePtpc, SimpleSapc, SimpleRtpcRecv, clientUnchanged, progVars
<1>2. CASE sap_msg' = sap_msg
  BY <1>1, <1>2 DEF MessageInv
<1>3. ASSUME NEW f \in {"ANNOUNCE", "DELETION"}, NEW id, sap_msg' = build_sap_msg(f, session, id)
      PROVE  MessageInv'
  <2>1. sap_msg'.ptp_server_id = id
    BY <1>3, Zenon DEF build_sap_msg
  <2>2. sap_msg' = build_sap_msg(f, session', sap_msg'.ptp_server_id)
    BY <1>1, <1>3, <2>1, Zenon
  <2>3. QED
    BY <1>1, <2>2, Zenon DEF MessageInv
<1>4. CASE NetworkThread
  BY <1>2, <1>3, <1>4 DEF NetworkThread, aoip_build_sap_msg
<1>5. CASE SimpleSapc
  BY <1>2, <1>3, <1>5, Zenon DEF SimpleSapc, SapcStart, SapcHead, SapcTimer
<1>6. CASE ~NetworkThread /\ ~SimpleSapc
  BY <1>2, <1>6, Zenon DEF ProgramNext, MainThread, AudioThread, Signal, Context, DeviceMain,
         SimplePtpc, SimpleRtpcRecv, progVars, loopVars
<1>7. QED
  BY <1>4, <1>5, <1>6, Zenon

LEMMA Messages == ProgramSpec => []MessageInv
<1>1. ProgramInit => MessageInv
  BY SessionAssumption DEF ProgramInit, MessageInv
<1>2. QED
  BY <1>1, MessageStep, PTL DEF ProgramSpec

(* What build_sap_msg makes of any session fits, whatever its name, its    *)
(* addresses, its format and the time of day: no snprintf is cut short and *)
(* sap_send sends no byte beyond the text.                                 *)
THEOREM MessagesFit == ProgramSpec => []SapFits
<1>1. MessageInv => SapFits
  BY MessageFits, Zenon DEF MessageInv, SapFits
<1>2. QED
  BY <1>1, Messages, PTL

(* For every session, the address is found in the message again exactly if *)
(* it is shorter than fifteen characters and the name has no "c=" in it,   *)
(* or the first one it has is followed by the same address.                *)
THEOREM AddressReadBack == ProgramSpec => []SapReadBack
<1>1. MessageInv => SapReadBack
  BY MessageReadBack, Zenon DEF MessageInv, SapReadBack
<1>2. QED
  BY <1>1, Messages, PTL

-----------------------------------------------------------------------------
(***************************************************************************)
(* The clients have one context: main walks through its two lists of calls *)
(* with nothing beside it but the signal.                                  *)
(***************************************************************************)
(* t is what is left of q when its first n - 1 calls are done. *)
LeftOf(t, q, n) ==
  /\ t \in Seq(Call)
  /\ Len(t) = Len(q) - n + 1
  /\ \A i \in 1..Len(t) : t[i] = q[n + i - 1]

(* Doing its first call leaves the rest. *)
LEMMA NextCall ==
  ASSUME NEW q \in Seq(Call), NEW n \in 1..Len(q), NEW t, LeftOf(t, q, n)
  PROVE  /\ t[1] = q[n]
         /\ LeftOf(Tail(t), q, n + 1)
         /\ Len(t) = 1 <=> n = Len(q)
<1>1. t \in Seq(Call) /\ t # <<>> /\ Len(t) = Len(q) - n + 1 /\ Len(q) \in Nat
  BY DEF LeftOf
<1>2. Tail(t) \in Seq(Call) /\ Len(Tail(t)) = Len(q) - (n + 1) + 1
  BY <1>1, TailCalls
<1>3. ASSUME NEW i \in 1..Len(Tail(t)) PROVE Tail(t)[i] = q[n + 1 + i - 1]
  <2>1. Tail(t)[i] = t[i + 1] /\ i + 1 \in 1..Len(t)
    BY <1>1, <1>2, TailCalls
  <2>2. t[i + 1] = q[n + (i + 1) - 1]
    BY <2>1, Zenon DEF LeftOf
  <2>3. n + (i + 1) - 1 = n + 1 + i - 1
    OBVIOUS
  <2>4. QED
    BY <2>1, <2>2, <2>3, Zenon
<1>4. t[1] = q[n]
  BY <1>1 DEF LeftOf
<1>5. LeftOf(Tail(t), q, n + 1)
  BY <1>2, <1>3, Zenon DEF LeftOf
<1>6. Len(t) = 1 <=> n = Len(q)
  BY <1>1, SMTT(60)
<1>7. QED
  BY <1>4, <1>5, <1>6, Zenon

(* At first all of it is left. *)
LEMMA NothingDone ==
  ASSUME NEW q \in Seq(Call)
  PROVE  LeftOf(q, q, 1)
BY DEF LeftOf

(* What the calls do to the sockets. *)
LEMMA SocketEffect ==
  ASSUME NEW op, NEW r, Effect(op, r)
  PROVE  /\ op \in {"socket", "bind", "option", "join", "drop", "close"} =>
              UNCHANGED <<slots, device>>
         /\ op = "socket" => open' = open \cup {r} /\ member' = member
         /\ op \in {"bind", "option"} => open' = open /\ member' = member
         /\ op = "join" => open' = open /\ member' = member \cup {r}
         /\ op = "drop" => open' = open /\ member' = member \ {r}
         /\ op = "close" => open' = open \ {r} /\ member' = member \ {r}
BY DEF Effect

(* The sockets of a client. *)
Sockets ==
  CASE program = "simple-ptpc" -> {"event", "general"}
    [] program = "simple-sapc" -> {"sap"}
    [] program = "simple-rtpc-recv" -> {"rtp"}

(* What there is when n - 1 calls of the creation are done, *)
Made(n) ==
  \/ n = 1 /\ open = {} /\ member = {}
  \/ program = "simple-ptpc" /\
       \/ n \in 2..5 /\ open = {"event"} /\ member = {}
       \/ n = 6 /\ open = {"event"} /\ member = {"event"}
       \/ n \in 7..9 /\ open = {"event", "general"} /\ member = {"event"}
  \/ program = "simple-sapc" /\ n = 2 /\ open = {"sap"} /\ member = {}
  \/ program = "simple-rtpc-recv" /\ n \in 2..6 /\ open = {"rtp"} /\ member = {}

(* and when n - 1 calls of the destruction are: a group may not have been  *)
(* left.                                                                   *)
Undone(n) ==
  \/ n = 1 /\ open = Sockets /\ member = Sockets \cap Joined
  \/ program = "simple-ptpc" /\
       \/ n = 2 /\ open = {"event", "general"} /\ member \subseteq open /\ "event" \in member
       \/ n = 3 /\ open = {"event"} /\ member = {"event"}
       \/ n = 4 /\ open = {"event"} /\ member \subseteq open
  \/ program = "simple-rtpc-recv" /\ n = 2 /\ open = {"rtp"} /\ member \subseteq open

(* No threads, no device and no slots. *)
Alone ==
  /\ program \in Clients
  /\ rtp_mode = "RTP_MODE_RECV"
  /\ net = "none" /\ audio = "none" /\ ao_failed = FALSE
  /\ slots = -1 /\ device = "none"
  /\ network_stop_flag = FALSE /\ audio_stop_flag = FALSE

(* Where main is, and what there is then. *)
ClientInv ==
  /\ Alone
  /\ caught_signal \in BOOLEAN
  /\ main \in {"create", "created", "destroy", "done", "failed"}
  /\ todo \in Seq(Call)
  /\ open \subseteq Socket /\ member \subseteq open
  /\ main = "create" => \E n \in 1..Len(Creation) : LeftOf(todo, Creation, n) /\ Made(n)
  /\ main = "created" => open = Sockets /\ member = Sockets \cap Joined
  /\ main = "destroy" => \E n \in 1..Len(Destruction) : LeftOf(todo, Destruction, n) /\ Undone(n)
  /\ main = "done" => open = {} /\ member = {}

(* What a client's sockets are. *)
LEMMA ClientSockets ==
  ASSUME Alone
  PROVE  /\ Receiving
         /\ Joined = {"event", "general", "rtp"}
         /\ program = "simple-ptpc" => Sockets = {"event", "general"}
         /\ program = "simple-sapc" => Sockets = {"sap"}
         /\ program = "simple-rtpc-recv" => Sockets = {"rtp"}
         /\ program \in {"simple-ptpc", "simple-sapc", "simple-rtpc-recv"}
BY DEF Alone, Receiving, Joined, Sockets, Clients

(* The calls on the RTP socket of a receiver. *)
LEMMA RtpCalls ==
  ASSUME Receiving
  PROVE  /\ rtp_create_context \in Seq(Call) /\ Len(rtp_create_context) = 6
         /\ rtp_create_context[1] = <<"socket", "rtp">>
         /\ rtp_create_context[2] = <<"option", "rtp">>
         /\ rtp_create_context[3] = <<"option", "rtp">>
         /\ rtp_create_context[4] = <<"option", "rtp">>
         /\ rtp_create_context[5] = <<"bind", "rtp">>
         /\ rtp_create_context[6] = <<"join", "rtp">>
         /\ rtp_context_destroy \in Seq(Call) /\ Len(rtp_context_destroy) = 2
         /\ rtp_context_destroy[1] = <<"drop", "rtp">>
         /\ rtp_context_destroy[2] = <<"close", "rtp">>
<1>1. << <<"socket", "rtp">>, <<"option", "rtp">>, <<"option", "rtp">>,
         <<"option", "rtp">> >> \in Seq(Call)
  BY DEF Call, Step, Socket
<1>2. << <<"bind", "rtp">>, <<"join", "rtp">> >> \in Seq(Call)
  BY DEF Call, Step, Socket
<1>3. << <<"drop", "rtp">> >> \in Seq(Call) /\ << <<"close", "rtp">> >> \in Seq(Call)
  BY DEF Call, Step, Socket
<1>4. QED
  BY <1>1, <1>2, <1>3 DEF rtp_create_context, rtp_context_destroy

(* The two lists of a client. *)
LEMMA ClientLists ==
  ASSUME Alone
  PROVE  /\ Creation \in Seq(Call) /\ Destruction \in Seq(Call)
         /\ program = "simple-ptpc" =>
              /\ Creation = ptpc_create_context /\ Len(Creation) = 9
              /\ Destruction = ptpc_context_destroy /\ Len(Destruction) = 4
         /\ program = "simple-sapc" =>
              /\ Creation = sap_create_context /\ Len(Creation) = 2
              /\ Destruction = sap_context_destroy /\ Len(Destruction) = 1
         /\ program = "simple-rtpc-recv" =>
              /\ Creation = rtp_create_context /\ Len(Creation) = 6
              /\ Destruction = rtp_context_destroy /\ Len(Destruction) = 2
         /\ 1 \in 1..Len(Creation) /\ 1 \in 1..Len(Destruction)
<1>1. CASE program = "simple-ptpc"
  <2>1. Creation = ptpc_create_context /\ Destruction = ptpc_context_destroy
    BY <1>1 DEF Creation, Destruction, Devices
  <2>2. QED
    BY <1>1, <2>1 DEF ptpc_create_context, ptpc_context_destroy, Call, Step, Socket
<1>2. CASE program = "simple-sapc"
  <2>1. Creation = sap_create_context /\ Destruction = sap_context_destroy
    BY <1>2, SMTT(60) DEF Creation, Destruction, Devices
  <2>2. QED
    BY <1>2, <2>1 DEF sap_create_context, sap_context_destroy, Call, Step, Socket
<1>3. CASE program = "simple-rtpc-recv"
  <2>1. Creation = rtp_create_context /\ Destruction = rtp_context_destroy
    BY <1>3 DEF Creation, Destruction, Devices
  <2>2. QED
    BY <1>3, <2>1, RtpCalls, ClientSockets, SMTT(60)
<1>4. QED
  BY <1>1, <1>2, <1>3, ClientSockets, Zenon

(* The calls of the clients, one by one: the creation, *)
LEMMA CreationCall ==
  ASSUME Alone, NEW n \in 1..Len(Creation)
  PROVE  /\ program = "simple-ptpc" =>
              /\ Len(Creation) = 9
              /\ \/ n = 1 /\ Creation[n] = <<"socket", "event">>
                 \/ n = 2 /\ Creation[n] = <<"bind", "event">>
                 \/ n \in {3, 4} /\ Creation[n] = <<"option", "event">>
                 \/ n = 5 /\ Creation[n] = <<"join", "event">>
                 \/ n = 6 /\ Creation[n] = <<"socket", "general">>
                 \/ n = 7 /\ Creation[n] = <<"bind", "general">>
                 \/ n = 8 /\ Creation[n] = <<"option", "general">>
                 \/ n = 9 /\ Creation[n] = <<"join", "general">>
         /\ program = "simple-sapc" =>
              /\ Len(Creation) = 2
              /\ \/ n = 1 /\ Creation[n] = <<"socket", "sap">>
                 \/ n = 2 /\ Creation[n] = <<"option", "sap">>
         /\ program = "simple-rtpc-recv" =>
              /\ Len(Creation) = 6
              /\ \/ n = 1 /\ Creation[n] = <<"socket", "rtp">>
                 \/ n \in {2, 3, 4} /\ Creation[n] = <<"option", "rtp">>
                 \/ n = 5 /\ Creation[n] = <<"bind", "rtp">>
                 \/ n = 6 /\ Creation[n] = <<"join", "rtp">>
<1>1. CASE program = "simple-ptpc"
  <2>1. n \in 1..9 /\ Creation = ptpc_create_context /\ Len(Creation) = 9
    BY <1>1, ClientLists, Zenon
  <2>2. n \in {1, 2, 3, 4, 5, 6, 7, 8, 9}
    BY <2>1
  <2>3. QED
    BY <1>1, <2>1, <2>2 DEF ptpc_create_context
<1>2. CASE program = "simple-sapc"
  <2>1. n \in 1..2 /\ Creation = sap_create_context /\ Len(Creation) = 2
    BY <1>2, ClientLists, Zenon
  <2>2. n \in {1, 2}
    BY <2>1
  <2>3. QED
    BY <1>2, <2>1, <2>2 DEF sap_create_context
<1>3. CASE program = "simple-rtpc-recv"
  <2>1. n \in 1..6 /\ Creation = rtp_create_context /\ Len(Creation) = 6
    BY <1>3, ClientLists, Zenon
  <2>2. n \in {1, 2, 3, 4, 5, 6}
    BY <2>1, SMTT(60)
  <2>3. QED
    BY <1>3, <2>1, <2>2, RtpCalls, ClientSockets, Zenon
<1>4. QED
  BY <1>1, <1>2, <1>3, ClientSockets, Zenon

(* and the destruction. *)
LEMMA DestructionCall ==
  ASSUME Alone, NEW n \in 1..Len(Destruction)
  PROVE  /\ program = "simple-ptpc" =>
              /\ Len(Destruction) = 4
              /\ \/ n = 1 /\ Destruction[n] = <<"drop", "general">>
                 \/ n = 2 /\ Destruction[n] = <<"close", "general">>
                 \/ n = 3 /\ Destruction[n] = <<"drop", "event">>
                 \/ n = 4 /\ Destruction[n] = <<"close", "event">>
         /\ program = "simple-sapc" =>
              Len(Destruction) = 1 /\ n = 1 /\ Destruction[n] = <<"close", "sap">>
         /\ program = "simple-rtpc-recv" =>
              /\ Len(Destruction) = 2
              /\ \/ n = 1 /\ Destruction[n] = <<"drop", "rtp">>
                 \/ n = 2 /\ Destruction[n] = <<"close", "rtp">>
<1>1. CASE program = "simple-ptpc"
  <2>1. n \in 1..4 /\ Destruction = ptpc_context_destroy /\ Len(Destruction) = 4
    BY <1>1, ClientLists, Zenon
  <2>2. n \in {1, 2, 3, 4}
    BY <2>1
  <2>3. QED
    BY <1>1, <2>1, <2>2 DEF ptpc_context_destroy
<1>2. CASE program = "simple-sapc"
  <2>1. n \in 1..1 /\ Destruction = sap_context_destroy /\ Len(Destruction) = 1
    BY <1>2, ClientLists, Zenon
  <2>2. QED
    BY <1>2, <2>1 DEF sap_context_destroy
<1>3. CASE program = "simple-rtpc-recv"
  <2>1. n \in 1..2 /\ Destruction = rtp_context_destroy /\ Len(Destruction) = 2
    BY <1>3, ClientLists, Zenon
  <2>2. n \in {1, 2}
    BY <2>1
  <2>3. QED
    BY <1>3, <2>1, <2>2, RtpCalls, ClientSockets, ZenonT(60)
<1>4. QED
  BY <1>1, <1>2, <1>3, ClientSockets, ZenonT(60)

(* A client begins with all of its creation to do. *)
LEMMA ClientInit == ProgramInit /\ program \in Clients => ClientInv
<1> SUFFICES ASSUME ProgramInit, program \in Clients PROVE ClientInv
  OBVIOUS
<1>1. Alone
  BY DEF ProgramInit, Alone, Clients, Config, rtpdump_config
<1>2. Creation \in Seq(Call) /\ 1 \in 1..Len(Creation)
  BY <1>1, ClientLists, Zenon
<1>3. todo = Creation /\ main = "create" /\ caught_signal = FALSE /\ open = {} /\ member = {}
  BY Zenon DEF ProgramInit
<1>4. LeftOf(todo, Creation, 1) /\ Made(1)
  BY <1>2, <1>3, NothingDone, Zenon DEF Made
<1>5. QED
  BY <1>1, <1>2, <1>3, <1>4, Zenon DEF ClientInv

(* What depends on the program and on rtp_mode alone. *)
LEMMA SameLists ==
  ASSUME UNCHANGED <<program, rtp_mode>>
  PROVE  UNCHANGED <<Creation, Destruction, Sockets, Joined>>
BY DEF Creation, Destruction, Sockets, Joined, Receiving, aoip_create_context, network_init,
       rtp_create_context, rtp_context_destroy

(* The next call of the creation, *)
LEMMA ClientCreates ==
  ASSUME ClientInv, Create, UNCHANGED program
  PROVE  ClientInv'
<1>1. PICK n \in 1..Len(Creation) : LeftOf(todo, Creation, n) /\ Made(n)
  BY Zenon DEF Create, ClientInv
<1>2. Alone /\ Creation \in Seq(Call) /\ Len(Creation) \in Nat
  BY ClientLists, SMTT(60) DEF ClientInv
<1>3. /\ todo[1] = Creation[n]
      /\ LeftOf(todo', Creation, n + 1)
      /\ Len(todo) = 1 <=> n = Len(Creation)
  BY <1>1, <1>2, NextCall, SMTT(60) DEF Create
<1>4. UNCHANGED <<Creation, Destruction, Sockets, Joined>>
  BY SameLists, Zenon DEF Create, flags
<1> DEFINE op == Creation[n][1]
           r == Creation[n][2]
<1>5. /\ op \in {"socket", "bind", "option", "join"}
      /\ op = "socket" => open' = open \cup {r} /\ member' = member
      /\ op \in {"bind", "option"} => open' = open /\ member' = member
      /\ op = "join" => open' = open /\ member' = member \cup {r}
      /\ UNCHANGED <<slots, device>>
  <2>1. op \in {"socket", "bind", "option", "join"}
    BY <1>1, <1>2, CreationCall, ClientSockets, SMTT(60)
  <2>2. Effect(op, r)
    BY <1>3, Zenon DEF Create
  <2>3. QED
    BY <2>1, <2>2, SocketEffect, ZenonT(60)
<1>6. /\ IF n = Len(Creation) THEN open' = Sockets /\ member' = Sockets \cap Joined
         ELSE Made(n + 1)'
      /\ open' \subseteq Socket /\ member' \subseteq open'
  <2> HIDE DEF op, r
  <2>1. CASE program = "simple-ptpc"
    <3>1. Sockets = {"event", "general"} /\ Sockets \cap Joined = {"event", "general"}
      BY <1>2, <2>1, ClientSockets, SMTT(60)
    <3>2. /\ Len(Creation) = 9
          /\ \/ n = 1 /\ op = "socket" /\ r = "event"
             \/ n \in 2..4 /\ op \in {"bind", "option"}
             \/ n = 5 /\ op = "join" /\ r = "event"
             \/ n = 6 /\ op = "socket" /\ r = "general"
             \/ n \in 7..8 /\ op \in {"bind", "option"}
             \/ n = 9 /\ op = "join" /\ r = "general"
      BY <1>1, <1>2, <2>1, CreationCall, SMTT(60) DEF op, r
    <3>3. QED
      BY <1>1, <1>5, <2>1, <3>1, <3>2, SMTT(60) DEF Made, Socket
  <2>2. CASE program = "simple-sapc"
    <3>1. Sockets = {"sap"} /\ Sockets \cap Joined = {}
      BY <1>2, <2>2, ClientSockets, ZenonT(60)
    <3>2. /\ Len(Creation) = 2
          /\ \/ n = 1 /\ op = "socket" /\ r = "sap"
             \/ n = 2 /\ op = "option"
      BY <1>1, <1>2, <2>2, CreationCall, SMTT(60) DEF op, r
    <3>3. QED
      BY <1>1, <1>5, <2>2, <3>1, <3>2, SMTT(60) DEF Made, Socket
  <2>3. CASE program = "simple-rtpc-recv"
    <3>1. Sockets = {"rtp"} /\ Sockets \cap Joined = {"rtp"}
      BY <1>2, <2>3, ClientSockets, ZenonT(60)
    <3>2. /\ Len(Creation) = 6
          /\ \/ n = 1 /\ op = "socket" /\ r = "rtp"
             \/ n \in 2..5 /\ op \in {"bind", "option"}
             \/ n = 6 /\ op = "join" /\ r = "rtp"
      BY <1>1, <1>2, <2>3, CreationCall, SMTT(60) DEF op, r
    <3>3. QED
      BY <1>1, <1>5, <2>3, <3>1, <3>2, SMTT(60) DEF Made, Socket
  <2>4. QED
    BY <1>2, <2>1, <2>2, <2>3, ClientSockets, ZenonT(60)
<1>7. Alone'
  BY <1>2, <1>5, Zenon DEF Create, Alone, flags, threads
<1>8. CASE n = Len(Creation)
  BY <1>3, <1>4, <1>6, <1>7, <1>8, ZenonT(60) DEF ClientInv, Create, LeftOf
<1>9. CASE n # Len(Creation)
  <2>1. n + 1 \in 1..Len(Creation')
    BY <1>2, <1>4, <1>9, SMTT(60)
  <2>2. main' = "create" /\ LeftOf(todo', Creation', n + 1) /\ Made(n + 1)'
    BY <1>3, <1>4, <1>6, <1>9, Zenon DEF Create
  <2>3. \E k \in 1..Len(Creation') : LeftOf(todo', Creation', k) /\ Made(k)'
    BY <2>1, <2>2, Zenon
  <2>4. QED
    BY <1>3, <1>6, <1>7, <2>2, <2>3, ZenonT(60) DEF ClientInv, Create, LeftOf
<1>10. QED
  BY <1>8, <1>9, SMTT(60)

(* the next call of the destruction, *)
LEMMA ClientDestroys ==
  ASSUME ClientInv, Destroy, UNCHANGED program
  PROVE  ClientInv'
<1>1. PICK n \in 1..Len(Destruction) : LeftOf(todo, Destruction, n) /\ Undone(n)
  BY Zenon DEF Destroy, ClientInv
<1>2. Alone /\ Destruction \in Seq(Call) /\ Len(Destruction) \in Nat
  BY ClientLists, SMTT(60) DEF ClientInv
<1>3. /\ todo[1] = Destruction[n]
      /\ LeftOf(todo', Destruction, n + 1)
      /\ Len(todo) = 1 <=> n = Len(Destruction)
  BY <1>1, <1>2, NextCall, SMTT(60) DEF Destroy
<1>4. UNCHANGED <<Creation, Destruction, Sockets, Joined>>
  BY SameLists, Zenon DEF Destroy, flags
<1> DEFINE op == Destruction[n][1]
           r == Destruction[n][2]
<1>5. /\ op = "drop" => open' = open /\ member' \in {member, member \ {r}}
      /\ op = "close" => open' = open \ {r} /\ member' = member \ {r}
      /\ UNCHANGED <<slots, device>>
  <2>1. op \in {"drop", "close"}
    BY <1>1, <1>2, DestructionCall, ClientSockets, SMTT(60)
  <2>2. Effect(op, r) \/ (op = "drop" /\ UNCHANGED held)
    BY <1>3, Zenon DEF Destroy
  <2>3. QED
    BY <2>1, <2>2, SocketEffect, ZenonT(60) DEF held
<1>6. /\ IF n = Len(Destruction) THEN open' = {} /\ member' = {} ELSE Undone(n + 1)'
      /\ open' \subseteq Socket /\ member' \subseteq open'
  <2> HIDE DEF op, r
  <2>1. CASE program = "simple-ptpc"
    <3>1. Sockets = {"event", "general"} /\ Sockets \cap Joined = {"event", "general"}
      BY <1>2, <2>1, ClientSockets
    <3>2. /\ Len(Destruction) = 4
          /\ \/ n = 1 /\ op = "drop" /\ r = "general"
             \/ n = 2 /\ op = "close" /\ r = "general"
             \/ n = 3 /\ op = "drop" /\ r = "event"
             \/ n = 4 /\ op = "close" /\ r = "event"
      BY <1>1, <1>2, <2>1, DestructionCall, SMTT(60) DEF op, r
    <3>3. QED
      BY <1>1, <1>5, <2>1, <3>1, <3>2, SMTT(60) DEF Undone, Socket
  <2>2. CASE program = "simple-sapc"
    <3>1. Sockets = {"sap"} /\ Sockets \cap Joined = {}
      BY <1>2, <2>2, ClientSockets, SMTT(60)
    <3>2. Len(Destruction) = 1 /\ n = 1 /\ op = "close" /\ r = "sap"
      BY <1>1, <1>2, <2>2, DestructionCall, SMTT(60) DEF op, r
    <3>3. QED
      BY <1>1, <1>5, <2>2, <3>1, <3>2, ZenonT(60) DEF Undone, Socket
  <2>3. CASE program = "simple-rtpc-recv"
    <3>1. Sockets = {"rtp"} /\ Sockets \cap Joined = {"rtp"}
      BY <1>2, <2>3, ClientSockets, SMTT(60)
    <3>2. /\ Len(Destruction) = 2
          /\ \/ n = 1 /\ op = "drop" /\ r = "rtp"
             \/ n = 2 /\ op = "close" /\ r = "rtp"
      BY <1>1, <1>2, <2>3, DestructionCall, SMTT(60) DEF op, r
    <3>3. QED
      BY <1>1, <1>5, <2>3, <3>1, <3>2, SMTT(60) DEF Undone, Socket
  <2>4. QED
    BY <1>2, <2>1, <2>2, <2>3, ClientSockets, ZenonT(60)
<1>7. Alone'
  BY <1>2, <1>5, Zenon DEF Destroy, Alone, flags, threads
<1>8. CASE n = Len(Destruction)
  BY <1>3, <1>4, <1>6, <1>7, <1>8, ZenonT(60) DEF ClientInv, Destroy, LeftOf
<1>9. CASE n # Len(Destruction)
  <2>1. n + 1 \in 1..Len(Destruction')
    BY <1>2, <1>4, <1>9
  <2>2. main' = "destroy" /\ LeftOf(todo', Destruction', n + 1) /\ Undone(n + 1)'
    BY <1>3, <1>4, <1>6, <1>9, Zenon DEF Destroy
  <2>3. \E k \in 1..Len(Destruction') : LeftOf(todo', Destruction', k) /\ Undone(k)'
    BY <2>1, <2>2, Zenon
  <2>4. QED
    BY <1>3, <1>6, <1>7, <2>2, <2>3, ZenonT(60) DEF ClientInv, Destroy, LeftOf
<1>10. QED
  BY <1>8, <1>9

(* and a creation that fails: aoip_bind closes a socket that has not       *)
(* joined its group yet.                                                   *)
LEMMA ClientFails ==
  ASSUME ClientInv, CreateFails, UNCHANGED program
  PROVE  ClientInv'
<1>1. PICK n \in 1..Len(Creation) : LeftOf(todo, Creation, n) /\ Made(n)
  BY Zenon DEF CreateFails, ClientInv
<1>2. Alone /\ Creation \in Seq(Call)
  BY ClientLists, Zenon DEF ClientInv
<1>3. todo[1] = Creation[n]
  BY <1>1, <1>2, NextCall, SMTT(60)
<1>4. todo[1][1] = "bind" => todo[1][2] \notin member
  <2>1. CASE program = "simple-ptpc"
    <3>1. \/ todo[1][1] # "bind"
          \/ n = 2 /\ todo[1][2] = "event"
          \/ n = 7 /\ todo[1][2] = "general"
      BY <1>1, <1>2, <1>3, <2>1, CreationCall, SMTT(60)
    <3>2. QED
      BY <1>1, <2>1, <3>1, SMTT(60) DEF Made
  <2>2. CASE program \in {"simple-sapc", "simple-rtpc-recv"}
    <3>1. member = {}
      BY <1>1, <2>2, Zenon DEF Made
    <3>2. QED
      BY <3>1, Zenon
  <2>3. QED
    BY <1>2, <2>1, <2>2, ClientSockets, Zenon
<1>5. Alone'
  BY <1>2, Zenon DEF CreateFails, Alone, flags, threads
<1>6. open' \subseteq Socket /\ member' \subseteq open'
  BY <1>4, Zenon DEF CreateFails, ClientInv
<1>7. QED
  BY <1>5, <1>6, Zenon DEF ClientInv, CreateFails

(* A loop of a client ends with the destruction or as a failure. *)
LEMMA ClientLoops ==
  ASSUME ClientInv, SimplePtpc \/ SimpleSapc \/ SimpleRtpcRecv
  PROVE  ClientInv'
<1>1. /\ main = "created" /\ LoopEnds
      /\ UNCHANGED <<program, caught_signal, rtp_mode, network_stop_flag, audio_stop_flag,
                     net, audio, ao_failed, open, member, slots, device>>
  BY Zenon DEF SimplePtpc, SimpleSapc, SimpleRtpcRecv, clientUnchanged, flags, threads, held
<1>2. Alone /\ Destruction \in Seq(Call) /\ 1 \in 1..Len(Destruction)
  BY ClientLists, Zenon DEF ClientInv
<1>3. Alone'
  BY <1>1, <1>2, Zenon DEF Alone
<1>4. UNCHANGED <<Destruction, Sockets, Joined>>
  BY <1>1, SameLists, Zenon
<1>5. CASE npc' = "returned"
  <2>1. main' = "destroy" /\ todo' = Destruction'
    BY <1>1, <1>4, <1>5 DEF LoopEnds
  <2>2. LeftOf(todo', Destruction', 1) /\ 1 \in 1..Len(Destruction')
    BY <1>2, <1>4, <2>1, NothingDone, Zenon
  <2>3. Undone(1)'
    BY <1>1, <1>4, Zenon DEF ClientInv, Undone
  <2>4. \E n \in 1..Len(Destruction') : LeftOf(todo', Destruction', n) /\ Undone(n)'
    BY <2>2, <2>3, Zenon
  <2>5. QED
    BY <1>1, <1>2, <1>3, <1>4, <2>1, <2>4, Zenon DEF ClientInv
<1>6. CASE npc' # "returned"
  <2>1. main' \in {"created", "failed"} /\ todo' = todo
    BY <1>1, <1>6 DEF LoopEnds
  <2>2. QED
    BY <1>1, <1>3, <1>4, <2>1, Zenon DEF ClientInv
<1>7. QED
  BY <1>5, <1>6, SMTT(60)

(* A client has no thread that could do anything else. *)
LEMMA ClientStep == ClientInv /\ [ProgramNext]_progVars => ClientInv'
<1> SUFFICES ASSUME ClientInv, [ProgramNext]_progVars PROVE ClientInv'
  OBVIOUS
<1>1. program \notin Devices /\ audio = "none"
  BY Zenon DEF ClientInv, Alone, Clients, Devices
<1>2. CASE Context
  BY <1>2, ClientCreates, ClientDestroys, ClientFails, Zenon DEF Context
<1>3. CASE SimplePtpc \/ SimpleSapc \/ SimpleRtpcRecv
  BY <1>3, ClientLoops, SMTT(60)
<1>4. CASE Signal \/ UNCHANGED progVars
  <2>1. /\ UNCHANGED <<program, rtp_mode, main, todo, network_stop_flag, audio_stop_flag,
                       net, audio, ao_failed, open, member, slots, device>>
        /\ caught_signal' \in BOOLEAN
    BY <1>4, Zenon DEF Signal, sig_handler, progVars, vars, flags, threads, held, ClientInv
  <2>2. Alone'
    BY <2>1, Zenon DEF ClientInv, Alone
  <2>3. UNCHANGED <<Creation, Destruction, Sockets, Joined>>
    BY <2>1, SameLists, Zenon
  <2>4. QED
    BY <2>1, <2>2, <2>3, ZenonT(60) DEF ClientInv, LeftOf, Made, Undone
<1>5. ~NetworkThread /\ ~DeviceMain /\ ~AudioThread
  BY <1>1 DEF NetworkThread, DeviceMain, AudioThread, AudioOpen, AudioStops, AudioClose, AudioFails
<1>6. QED
  BY <1>2, <1>3, <1>4, <1>5, Zenon DEF ProgramNext, MainThread

(* What the invariant says of a client's state. *)
LEMMA ClientInvGives ==
  ASSUME ClientInv
  PROVE  TypeOK /\ ThreadsHaveContext /\ GivenBackOnce /\ NothingLeft /\ ClosedUnlessFailed
<1>1. TypeOK
  <2>1. slots \in -1 .. SlotNum
    BY DeviceAssumption DEF ClientInv, Alone
  <2>2. QED
    BY <2>1, Zenon DEF ClientInv, Alone, TypeOK, Call
<1>2. ThreadsHaveContext /\ NothingLeft /\ ClosedUnlessFailed
  BY Zenon DEF ClientInv, Alone, ThreadsHaveContext, NothingLeft, ClosedUnlessFailed
<1>3. GivenBackOnce
  <2> SUFFICES ASSUME main = "destroy" PROVE GivenBackOnce
    BY Zenon DEF GivenBackOnce
  <2>1. PICK n \in 1..Len(Destruction) : LeftOf(todo, Destruction, n) /\ Undone(n)
    BY Zenon DEF ClientInv
  <2>2. Alone /\ Destruction \in Seq(Call)
    BY ClientLists, ZenonT(60) DEF ClientInv
  <2>3. todo[1] = Destruction[n]
    BY <2>1, <2>2, NextCall, SMTT(60)
  <2>4. \/ todo[1][1] = "drop" /\ todo[1][2] \in member
        \/ todo[1][1] = "close" /\ todo[1][2] \in open
    <3>1. CASE program = "simple-ptpc"
      BY <2>1, <2>2, <2>3, <3>1, ClientSockets, DestructionCall, SMTT(60) DEF Undone
    <3>2. CASE program = "simple-sapc"
      BY <2>1, <2>2, <2>3, <3>2, ClientSockets, DestructionCall, SMTT(60) DEF Undone
    <3>3. CASE program = "simple-rtpc-recv"
      BY <2>1, <2>2, <2>3, <3>3, ClientSockets, DestructionCall, SMTT(60) DEF Undone
    <3>4. QED
      BY <2>2, <3>1, <3>2, <3>3, ClientSockets, ZenonT(60)
  <2>5. QED
    BY <2>4, Zenon DEF GivenBackOnce
<1>4. QED
  BY <1>1, <1>2, <1>3

(* All five programs keep to what Device says of its resources: a program  *)
(* that returns from main by the ordinary way holds nothing any more, and  *)
(* gives nothing back that it does not hold - for every number of slots,   *)
(* every timeout and all that can arrive.                                  *)
THEOREM ProgramsKeepTheirContexts ==
  ProgramSpec =>
    [](TypeOK /\ ThreadsHaveContext /\ GivenBackOnce /\ NothingLeft /\ ClosedUnlessFailed)
<1> DEFINE I == (program \in Devices /\ Inv) \/ ClientInv
<1>1. ProgramInit => I
  <2>1. ProgramInit /\ program \in Devices => Init
    BY DEF ProgramInit, Init, Creation, Devices, Config, rtpdump_config, tonegen_config
  <2>2. ProgramInit => program \in Devices \/ program \in Clients
    BY DEF ProgramInit
  <2>3. QED
    BY <2>1, <2>2, InitInv, ClientInit, ZenonT(60)
<1>2. I /\ [ProgramNext]_progVars => I'
  BY DeviceSteps, StepInv, ClientStep, Zenon
<1>3. I => TypeOK /\ ThreadsHaveContext /\ GivenBackOnce /\ NothingLeft /\ ClosedUnlessFailed
  BY InvGives, ClientInvGives, SMTT(60)
<1>4. QED
  BY <1>1, <1>2, <1>3, PTL DEF ProgramSpec

(* The end of a client: it takes the calls of its context as a device does *)
(* and leaves its loop once.                                               *)
LEMMA ClientLife == ClientInv /\ [ProgramNext]_progVars => [LifeLeft' < LifeLeft]_vars
<1> SUFFICES ASSUME ClientInv, [ProgramNext]_progVars, ~UNCHANGED vars
             PROVE  LifeLeft' < LifeLeft
  OBVIOUS
<1>1. TypeOK /\ TypeOK' /\ ClientInv'
  BY ClientStep, ClientInvGives, PTL
<1>2. Alone /\ Destruction \in Seq(Call) /\ Len(Destruction) \in 0..4
  <2>1. Alone
    BY Zenon DEF ClientInv
  <2>2. QED
    BY <2>1, ClientLists, ClientSockets
<1>3. CASE Context \/ Signal
  <2>1. Next
    BY <1>3, Zenon DEF Context, Signal, Next, Main
  <2>2. main = "create" => todo # <<>>
    <3>1. main = "create" => \E n \in 1..Len(Creation) : LeftOf(todo, Creation, n)
      BY Zenon DEF ClientInv
    <3>2. Creation \in Seq(Call)
      BY <1>2, ClientLists, Zenon
    <3>3. QED
      BY <3>1, <3>2 DEF LeftOf
  <2>3. main = "destroy" => todo # <<>>
    <3>1. main = "destroy" => \E n \in 1..Len(Destruction) : LeftOf(todo, Destruction, n)
      BY Zenon DEF ClientInv
    <3>2. Destruction \in Seq(Call)
      BY <1>2, ClientLists, Zenon
    <3>3. QED
      BY <3>1, <3>2 DEF LeftOf
  <2>4. net = "none" /\ audio = "none"
    BY <1>2, Zenon DEF Alone
  <2>5. QED
    BY <1>1, <2>1, <2>2, <2>3, <2>4, StepCountsDown, ZenonT(60)
<1>4. CASE SimplePtpc \/ SimpleSapc \/ SimpleRtpcRecv
  <2>1. /\ main = "created" /\ LoopEnds
        /\ UNCHANGED <<program, caught_signal, rtp_mode, network_stop_flag, audio_stop_flag,
                       net, audio, ao_failed, open, member, slots, device>>
    BY <1>4, Zenon DEF SimplePtpc, SimpleSapc, SimpleRtpcRecv, clientUnchanged, flags, threads, held
  <2>2. \/ main' = "failed"
        \/ main' = "destroy" /\ todo' = Destruction
    BY <2>1 DEF LoopEnds, vars
  <2>3. MainLeft' \in 0..4 /\ MainLeft = Len(aoip_context_destroy) + 7
    BY <1>2, <2>1, <2>2, SMTT(60) DEF MainLeft, MainOrder
  <2>4. MainLeft' < MainLeft
    BY <2>3, DestroyLength
  <2>5. NetLeft' = NetLeft /\ AudioLeft' = AudioLeft /\ SignalLeft' = SignalLeft
    BY <2>1, Zenon DEF NetLeft, AudioLeft, SignalLeft
  <2>6. /\ MainLeft' <= MainLeft /\ NetLeft' <= NetLeft
        /\ AudioLeft' <= AudioLeft /\ SignalLeft' <= SignalLeft
    <3>1. MainLeft \in Nat /\ NetLeft \in Nat /\ AudioLeft \in Nat /\ SignalLeft \in Nat
      BY <1>1, LifeLeftType, Zenon
    <3>2. QED
      BY <2>3, <2>4, <2>5, <3>1, SMTT(60)
  <2>7. QED
    BY <1>1, <2>4, <2>6, PartsLower, ZenonT(60)
<1>5. ~NetworkThread /\ ~DeviceMain /\ ~AudioThread
  BY <1>2 DEF NetworkThread, DeviceMain, AudioThread, AudioOpen, AudioStops, AudioClose, AudioFails,
              Alone, Clients, Devices
<1>6. QED
  BY <1>3, <1>4, <1>5, ZenonT(60) DEF ProgramNext, MainThread, progVars, vars

(* Every program has a bounded number of steps in it outside the loops of  *)
(* its protocols, and after SIGINT no pthread_join of a device waits for a *)
(* thread that is held up: what Device says of the end of the process is   *)
(* so with network_loop in the network thread, and of the clients too.     *)
THEOREM ProgramsComeToAnEnd == ProgramSpec => []SomeoneGoesOn /\ LifeCountsDown
<1> DEFINE I == (program \in Devices /\ Inv /\ Told) \/ ClientInv
<1>1. ProgramInit => I
  <2>1. ProgramInit /\ program \in Devices => Init
    BY DEF ProgramInit, Init, Creation, Devices, Config, rtpdump_config, tonegen_config
  <2>2. ProgramInit => program \in Devices \/ program \in Clients
    BY DEF ProgramInit
  <2>3. QED
    BY <2>1, <2>2, InitInv, ToldInit, ClientInit, ZenonT(60)
<1>2. I /\ [ProgramNext]_progVars => I'
  BY DeviceSteps, StepInv, ToldStep, ClientStep, ZenonT(60)
<1>3. I => SomeoneGoesOn
  <2>1. ClientInv => SomeoneGoesOn
    BY Zenon DEF ClientInv, SomeoneGoesOn
  <2>2. QED
    BY <2>1, InvGives, ToldGoesOn, SMTT(60)
<1>4. I /\ [ProgramNext]_progVars => [LifeLeft' < LifeLeft]_vars
  BY DeviceSteps, LifeStep, ClientLife, ZenonT(60)
<1>5. QED
  BY <1>1, <1>2, <1>3, <1>4, PTL DEF ProgramSpec, LifeCountsDown

-----------------------------------------------------------------------------
(***************************************************************************)
(* The network thread of a device is NetworkLoop.                          *)
(***************************************************************************)

(* ao_release is called in the destruction only.                           *)
ReleasedLast == device = "released" => main \in {"destroy", "done"}

(* And what is released stays so.                                          *)
LEMMA ReleasedStaysReleased ==
  ASSUME Inv, ReleasedLast, [Next]_vars
  PROVE  ReleasedLast' /\ (device = "released" => device' = "released")
<1>1. CASE Create
  <2>1. todo \in Seq(Call) /\ todo # <<>> /\ Creating(todo)
    BY <1>1, Zenon DEF Create, Inv, TypeOK, Call
  <2>2. 1 \in 1..Len(todo)
    BY <2>1, TailCalls
  <2>3. todo[1][1] \in {"socket", "bind", "option", "join", "ao_init", "malloc", "calloc"}
    BY <2>1, <2>2, Zenon DEF Creating
  <2>4. device' # "released"
    BY <1>1, <2>3, Zenon DEF Create, Effect, ReleasedLast
  <2>5. QED
    BY <1>1, <2>4, Zenon DEF Create, ReleasedLast
<1>2. CASE Destroy
  <2>1. todo \in Seq(Call) /\ todo # <<>> /\ Destroying(todo)
    BY <1>2, Zenon DEF Destroy, Inv, TypeOK, Call
  <2>2. 1 \in 1..Len(todo)
    BY <2>1, TailCalls
  <2>3. todo[1][1] \in {"drop", "free", "free_array"} \cup Closing
    BY <2>1, <2>2, Zenon DEF Destroying
  <2>4. device' \in {device, "released"}
    BY <1>2, <2>3, Zenon DEF Destroy, Effect, Closing, held
  <2>5. QED
    BY <1>2, <2>4, ZenonT(60) DEF Destroy, ReleasedLast
<1>3. CASE AudioOpen \/ AudioClose
  BY <1>3, Zenon DEF AudioOpen, AudioClose, Inv, Lifecycle, ReleasedLast
<1>4. CASE UNCHANGED device
  BY <1>4, ZenonT(60)
       DEF ReleasedLast, Next, Main, Threads, Create, CreateFails, StartNetwork, StartAudio,
      Wait, network_cb_stop, audio_cb_stop, JoinNetwork, JoinAudio, Destroy, NetworkStops,
      NetworkFails, AudioOpen, AudioStops, AudioClose, AudioFails, sig_handler, vars
<1>5. QED
  BY <1>1, <1>2, <1>3, <1>4, ZenonT(60)
     DEF Next, Main, Threads, CreateFails, StartNetwork, StartAudio,
      Wait, network_cb_stop, audio_cb_stop, JoinNetwork, JoinAudio, NetworkStops,
      NetworkFails, AudioStops, AudioFails, sig_handler, vars, held

(* The part of a device's state that network_loop works on changes in its  *)
(* own steps, by network_cb_stop, and when there is nothing left to hear.  *)
LEMMA NetworkSteps ==
  ASSUME program \in Devices, Inv, ReleasedLast, [ProgramNext]_progVars
  PROVE  [Net!Next]_(Net!vars)
<1>1. CASE NetworkThread
  BY <1>1 DEF NetworkThread, Net!Next
<1> DEFINE own == <<program, ptpc, sync, ret, npc, sap_timer, sap>>
<1>2. ASSUME UNCHANGED own, UNCHANGED network_stop_flag PROVE [Net!Next]_(Net!vars)
  <2>1. UNCHANGED <<Stop, Config>>
    BY <1>2, Zenon DEF Stop, Config
  <2>2. CASE UNCHANGED Silent
    BY <1>2, <2>1, <2>2, Zenon DEF Net!vars, Net!loopVars
  <2>3. CASE ~UNCHANGED Silent
    <3>1. Silent' = TRUE
      BY <2>3, DeviceSteps, ReleasedStaysReleased, Zenon DEF Silent
    <3>2. QED
      BY <1>2, <2>1, <3>1, Zenon DEF Net!Next, Net!ServersFallSilent, Net!loopVars
  <2>4. QED
    BY <2>2, <2>3, Zenon
<1>3. CASE DeviceMain /\ network_cb_stop
  <2>1. UNCHANGED <<own, Config, Silent>>
    BY <1>3, Zenon DEF DeviceMain, network_cb_stop, Config, Silent, held, loopVars
  <2>2. Stop' = TRUE
    BY <1>3, Zenon DEF DeviceMain, network_cb_stop, Stop
  <2>3. QED
    BY <2>1, <2>2, Zenon DEF Net!Next, Net!network_cb_stop, Net!loopVars
<1>4. CASE UNCHANGED progVars
  BY <1>2, <1>4, Zenon DEF progVars, vars, loopVars
<1>5. CASE AudioThread \/ Signal \/ Context
  BY <1>2, <1>5, ZenonT(60)
     DEF AudioThread, Signal, Context, loopVars, flags, AudioOpen, AudioStops, AudioClose,
          AudioFails, sig_handler, Create, CreateFails, Destroy
<1>6. CASE DeviceMain /\ ~network_cb_stop
  BY <1>2, <1>6, Zenon DEF DeviceMain, loopVars, flags, StartNetwork, StartAudio, Wait,
     audio_cb_stop, JoinNetwork, JoinAudio
<1>7. QED
  BY <1>1, <1>3, <1>4, <1>5, <1>6, ZenonT(60)
     DEF ProgramNext, MainThread, SimplePtpc, SimpleSapc, SimpleRtpcRecv, Devices

(* The network thread takes the steps of network_loop and no other thread  *)
(* interferes, but for network_cb_stop, once.                              *)
THEOREM NetworkThreadIsNetworkLoop == ProgramSpec => StepsOfNetworkLoop
<1>1. ProgramInit => (program \in Devices => Init /\ Net!Init /\ ReleasedLast)
  BY Zenon DEF ProgramInit, Init, Net!Init, Creation, Devices, Config, rtpdump_config,
         tonegen_config, Stop, Silent, ReleasedLast
<1> DEFINE I == program \in Devices => Inv /\ ReleasedLast
<1>2. ProgramInit => I
  BY <1>1, InitInv
<1>3. I /\ [ProgramNext]_progVars => I'
  <2>1. CASE program \in Devices
    BY <2>1, DeviceSteps, StepInv, ReleasedStaysReleased, ZenonT(60)
  <2>2. CASE program \notin Devices
    <3>1. [ProgramNext]_progVars => UNCHANGED program
      BY Zenon DEF ProgramNext, MainThread, NetworkThread, AudioThread, Signal, Context, DeviceMain,
         SimplePtpc, SimpleSapc, SimpleRtpcRecv, clientUnchanged, progVars
    <3>2. QED
      BY <2>2, <3>1, Zenon
  <2>3. QED
    BY <2>1, <2>2, Zenon
<1>4. I /\ [ProgramNext]_progVars => [(program \in Devices) => Net!Next]_(Net!vars)
  BY NetworkSteps, Zenon
<1>5. QED
  BY <1>1, <1>2, <1>3, <1>4, PTL DEF ProgramSpec, StepsOfNetworkLoop

(* The theorems of NetworkLoopProofs about this loop. *)
NLP == INSTANCE NetworkLoopProofs WITH
         pc <- npc, stop <- Stop, silent <- Silent, aoip_mode <- Config.aoip_mode

(* NetworkLoopProofs speaks of the same loop.                              *)
LEMMA SameLoop ==
  /\ Net!Init => NLP!Init
  /\ [Net!Next]_(Net!vars) => [NLP!Next]_(NLP!vars)
<1> USE DEF Net!Nothing, NLP!Nothing, Net!Failure, NLP!Failure, Net!Arrived, NLP!Arrived,
            Net!SyncContext, NLP!SyncContext, Net!PtpcContext, NLP!PtpcContext,
            Net!ptp_sync_state_reset, NLP!ptp_sync_state_reset, Net!Halved, NLP!Halved,
            Net!ptp_mean_path_delay, NLP!ptp_mean_path_delay, Net!ptp_offset, NLP!ptp_offset,
            Net!ptpc_recv_announce_msg, NLP!ptpc_recv_announce_msg, Net!ptpc_recv_sync_msg,
            NLP!ptpc_recv_sync_msg, Net!InDomain, NLP!InDomain, Net!Expected, NLP!Expected,
            Net!OtherSequence, NLP!OtherSequence, Net!NewServer, NLP!NewServer, Net!FollowUp,
            NLP!FollowUp, Net!DelayResp, NLP!DelayResp, Net!Ignored, NLP!Ignored, Net!RecvFails,
            NLP!RecvFails, Net!ptpc_recv_general_packet, NLP!ptpc_recv_general_packet,
            Net!loopVars, NLP!loopVars, Net!vars, NLP!vars, Net!Message, NLP!Message,
            Net!Received, NLP!Received, Net!Aged, NLP!Aged, Net!ToInt, NLP!ToInt, Net!ReadClock,
            NLP!ReadClock
<1>1. Net!Init => NLP!Init
  BY Zenon DEF Net!Init, NLP!Init
<1>2. Net!Received = NLP!Received /\ Net!Sent = NLP!Sent
  BY Zenon DEF Net!Sent, NLP!Sent
<1>3. ASSUME NEW d \in 0..MaxStep
      PROVE /\ Net!AnnounceHead(d) <=> NLP!AnnounceHead(d)
            /\ Net!SyncHead(d) <=> NLP!SyncHead(d)
            /\ Net!MainHead(d) <=> NLP!MainHead(d)
  BY Zenon DEF Net!AnnounceHead, NLP!AnnounceHead, Net!SyncHead, NLP!SyncHead, Net!MainHead,
         NLP!MainHead
<1>4. ASSUME NEW m, NEW sent
      PROVE /\ Net!AnnouncePoll(m) <=> NLP!AnnouncePoll(m)
            /\ Net!SyncEvent(m) <=> NLP!SyncEvent(m)
            /\ Net!MainEvent(m) <=> NLP!MainEvent(m)
            /\ Net!SyncGeneral(m, sent) <=> NLP!SyncGeneral(m, sent)
            /\ Net!MainGeneral(m, sent) <=> NLP!MainGeneral(m, sent)
  BY Zenon DEF Net!AnnouncePoll, NLP!AnnouncePoll, Net!SyncEvent, NLP!SyncEvent,
                  Net!MainEvent, NLP!MainEvent, Net!SyncGeneral, NLP!SyncGeneral,
                  Net!MainGeneral, NLP!MainGeneral
<1>5. /\ Net!AnnounceTimer <=> NLP!AnnounceTimer
      /\ Net!SyncStart <=> NLP!SyncStart
      /\ Net!SyncTimer <=> NLP!SyncTimer
      /\ Net!RtpDone <=> NLP!RtpDone
      /\ Net!RtpAgain <=> NLP!RtpAgain
      /\ Net!RtpFails <=> NLP!RtpFails
      /\ Net!PtpTimer <=> NLP!PtpTimer
      /\ Net!network_cb_stop <=> NLP!network_cb_stop
      /\ Net!ServersFallSilent <=> NLP!ServersFallSilent
      /\ \A ok \in BOOLEAN :
           /\ Net!SapAnnounce(ok) <=> NLP!SapAnnounce(ok)
           /\ Net!SapTimer(ok) <=> NLP!SapTimer(ok)
           /\ Net!SapDelete(ok) <=> NLP!SapDelete(ok)
  BY Zenon DEF Net!AnnounceTimer, NLP!AnnounceTimer, Net!SyncStart, NLP!SyncStart,
               Net!SyncTimer, NLP!SyncTimer, Net!RtpDone, NLP!RtpDone, Net!RtpAgain,
               NLP!RtpAgain, Net!RtpFails, NLP!RtpFails, Net!rtpUnchanged, NLP!rtpUnchanged,
               Net!PtpTimer, NLP!PtpTimer, Net!network_cb_stop, NLP!network_cb_stop,
               Net!ServersFallSilent, NLP!ServersFallSilent, Net!SapAnnounce, NLP!SapAnnounce,
               Net!SapTimer, NLP!SapTimer, Net!SapDelete, NLP!SapDelete
<1>6. Net!vars = NLP!vars /\ Net!vars' = NLP!vars'
  BY Zenon
<1>7. Net!Next => NLP!Next
  <2> HIDE DEF Net!Received, NLP!Received
  <2>1. QED BY <1>2, <1>3, <1>4, <1>5, ZenonT(60)
           DEF Net!Next, NLP!Next, Net!Step, NLP!Step, Net!PreludeStep, NLP!PreludeStep,
               Net!MainStep, NLP!MainStep
<1>8. QED
  BY <1>1, <1>6, <1>7, ZenonT(60)

(* So rtpdump and tonegen have what NetworkLoop promises, in the midst of  *)
(* their other threads: a session that is announced only in the main loop  *)
(* and withdrawn at its end, timers that are served, and a network thread  *)
(* that takes at most sixteen steps after network_cb_stop.                 *)
THEOREM NetworkLoopInPrograms ==
  ProgramSpec /\ program \in Devices =>
    [](Net!SessionWithdrawn /\ Net!TimersServed) /\ Net!StopCountsDown
<1>1. ProgramSpec /\ program \in Devices => NLP!Spec
  <2>1. program \in Devices /\ [ProgramNext]_progVars => (program \in Devices)'
    BY DeviceSteps, Zenon
  <2>2. ProgramSpec /\ program \in Devices => [](program \in Devices)
    BY <2>1, PTL DEF ProgramSpec
  <2>3. program \in Devices /\ [(program \in Devices) => Net!Next]_(Net!vars)
        => [NLP!Next]_(NLP!vars)
    BY SameLoop, Zenon
  <2>4. QED
    BY <2>2, <2>3, NetworkThreadIsNetworkLoop, SameLoop, PTL DEF StepsOfNetworkLoop, NLP!Spec
<1>2. NLP!Spec => []NLP!SessionWithdrawn
  BY NetworkAssumption, NLP!SessionIsWithdrawn, ZenonT(60)
<1>3. NLP!Spec => []NLP!TimersServed
  BY NetworkAssumption, NLP!TimersAreServed, ZenonT(60)
<1>4. NLP!Spec => NLP!StopCountsDown
  BY NetworkAssumption, NLP!StopBoundsTheSteps, ZenonT(60)
<1>5. /\ NLP!SessionWithdrawn => Net!SessionWithdrawn
      /\ NLP!TimersServed => Net!TimersServed
  BY Zenon DEF Net!SessionWithdrawn, NLP!SessionWithdrawn, Net!TimersServed, NLP!TimersServed,
         Net!Preludes, NLP!Preludes, Net!MainLoop, NLP!MainLoop, Net!Ended, NLP!Ended
<1>6. NLP!StopCountsDown => Net!StopCountsDown
  BY Zenon DEF Net!StopCountsDown, NLP!StopCountsDown, Net!StepsLeft, NLP!StepsLeft,
         Net!Ended, NLP!Ended, Net!loopVars, NLP!loopVars
<1>7. QED
  BY <1>1, <1>2, <1>3, <1>4, <1>5, <1>6, PTL
=============================================================================
