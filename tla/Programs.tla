------------------------------ MODULE Programs ------------------------------
(***************************************************************************)
(* The programs of the repository, each as a whole.  rtpdump and tonegen   *)
(* are the threads of Device with network_loop of NetworkLoop as their     *)
(* network thread, where Device only says that it ends.  simple-ptpc,      *)
(* simple-sapc and simple-rtpc-recv have one thread: they create one       *)
(* context, run one loop until SIGINT and destroy the context.             *)
(***************************************************************************)
EXTENDS Device, SapMessage

CONSTANTS Session,   \* the sessions each program can announce
          U64, U8, Server, Seqid, SyncTarget, AnnounceTimeout, PtpTimeout,
          SapTimeout, IntMod, MaxStep, Horizon   \* as in NetworkLoop

Devices == {"rtpdump", "tonegen"}
Clients == {"simple-ptpc", "simple-sapc", "simple-rtpc-recv"}

ASSUME SessionAssumption == \A p \in Devices \cup Clients : Session[p] \subseteq SessionType

(* What NetworkLoop assumes of its constants. *)
ASSUME NetworkAssumption ==
  /\ U64 \in Nat \ {0} /\ U8 \in Nat \ {0, 1}
  /\ SyncTarget \in 1 .. U8 - 1
  /\ {AnnounceTimeout, PtpTimeout, SapTimeout} \subseteq Nat \ {0}
  /\ IntMod \in Nat /\ PtpTimeout < IntMod \div 2
  /\ MaxStep \in 1 .. IntMod - PtpTimeout
  /\ Horizon \in Nat
  /\ \A t \in {AnnounceTimeout, PtpTimeout, SapTimeout, IntMod} : Horizon >= t

VARIABLES program,
          session,          \* name, addresses and format; never changed
          npc,              \* the step of the loop that is next
          ptpc, sync, ret,  \* as in Ptpc
          sap_timer, sap,   \* as in NetworkLoop
          sap_msg           \* ctx->sap.sap_msg

loopVars == <<npc, ptpc, sync, ret, sap_timer, sap, sap_msg>>
progVars == <<vars, program, session, loopVars>>

(* The flag that ends the program's loop. *)
Stop == IF program \in Devices THEN network_stop_flag ELSE caught_signal

rtpdump_config == [aoip_mode |-> "PLAYBACK", rtp_mode |-> "RTP_MODE_RECV"]
tonegen_config == [aoip_mode |-> "RECORD", rtp_mode |-> "RTP_MODE_SEND"]

Config == IF program = "tonegen" THEN tonegen_config ELSE rtpdump_config

(* The sockets may answer anything until aoip_context_destroy, which       *)
(* begins with ao_release.                                                 *)
Silent == device = "released"

Net == INSTANCE NetworkLoop WITH
         pc <- npc, stop <- Stop, silent <- Silent, aoip_mode <- Config.aoip_mode

NoMessage == [flags |-> "none"]

-----------------------------------------------------------------------------
(* What main() creates first and destroys last. *)
Creation ==
  CASE program \in Devices -> aoip_create_context
    [] program = "simple-ptpc" -> ptpc_create_context
    [] program = "simple-sapc" -> sap_create_context
    [] program = "simple-rtpc-recv" -> rtp_create_context

Destruction ==
  CASE program = "simple-ptpc" -> ptpc_context_destroy
    [] program = "simple-sapc" -> sap_context_destroy
    [] program = "simple-rtpc-recv" -> rtp_context_destroy

ProgramInit ==
  /\ program \in Devices \cup Clients
  /\ session \in Session[program]
  /\ rtp_mode = Config.rtp_mode
  /\ main = "create"
  /\ todo = Creation
  /\ caught_signal = FALSE /\ network_stop_flag = FALSE /\ audio_stop_flag = FALSE
  /\ net = "none" /\ audio = "none" /\ ao_failed = FALSE
  /\ open = {} /\ member = {} /\ slots = -1 /\ device = "none"
  /\ npc = CASE program = "simple-sapc" -> "sapc_start"
             [] program = "simple-rtpc-recv" -> "rtpc"
             [] OTHER -> "announce_head"
  /\ ptpc = Net!PtpcContext
  /\ sync = Net!SyncContext(0)
  /\ ret = 0 /\ sap_timer = 0 /\ sap = "none"
  /\ sap_msg = NoMessage

-----------------------------------------------------------------------------
aoip_build_sap_msg(type) == build_sap_msg(type, session, ptpc.ptp_server_id)

(* Mutated form: a network_loop that fails ends the process. *)
NetworkThread_exits ==
  /\ program \in Devices /\ Alive /\ net = "running"
  /\ UNCHANGED <<program, session, todo, caught_signal, flags, audio, ao_failed, held, sap_msg>>
  /\ Net!Step
  /\ net' = IF npc' \in {"returned", "failed"} THEN "ended" ELSE net
  /\ main' = IF npc' = "failed" THEN "failed" ELSE main

(* One step of network_loop in the network thread of a device. *)
NetworkThread ==
  /\ program \in Devices
  /\ Alive
  /\ net = "running"
  /\ UNCHANGED <<program, session, main, todo, caught_signal, flags, audio, ao_failed, held>>
  /\ Net!Step
  /\ net' = IF npc' \in {"returned", "failed"} THEN "ended" ELSE net
  /\ sap_msg' = CASE npc = "announce" -> aoip_build_sap_msg("ANNOUNCE")
                  [] npc = "delete" -> aoip_build_sap_msg("DELETION")
                  [] OTHER -> sap_msg

(* The callbacks of tonegen never fail, those of rtpdump may. *)
AudioThread ==
  /\ AudioOpen \/ AudioStops \/ AudioClose \/ AudioFails
  /\ program = "tonegen" => ao_failed' = ao_failed
  /\ UNCHANGED <<program, session, loopVars>>

(* main() of rtpdump and of tonegen, between creation and destruction. *)
DeviceMain ==
  /\ program \in Devices
  /\ \/ StartNetwork \/ StartAudio
     \/ Wait \/ network_cb_stop \/ audio_cb_stop
     \/ JoinNetwork \/ JoinAudio
  /\ UNCHANGED <<program, session, loopVars>>

(* Creation and destruction, of any program. *)
Context ==
  /\ \/ Create \/ Destroy
     \/ CreateFails /\ (program = "tonegen" => todo[1][1] # "ao_init")
  /\ UNCHANGED <<program, session, loopVars>>

(***************************************************************************)
(* The clients.                                                            *)
(***************************************************************************)
clientUnchanged ==
  UNCHANGED <<program, session, caught_signal, flags, threads, held>>

(* main() after the creation: a loop that failed ends the program without  *)
(* a destruction.                                                          *)
LoopEnds ==
  /\ main' = CASE npc' = "failed" -> "failed"
               [] npc' = "returned" -> "destroy"
               [] OTHER -> main
  /\ todo' = IF npc' = "returned" THEN Destruction ELSE todo

(* simple-ptpc waits for an Announce as network_loop does, *)
ptpc_announce_msg_loop ==
  \/ \E d \in 0..MaxStep : Net!AnnounceHead(d)
  \/ \E m \in Net!Received : Net!AnnouncePoll(m)
  \/ Net!AnnounceTimer

(* but then synchronises for ever, *)
SyncHead(d) ==
  /\ npc = "sync_head"
  /\ Net!ReadClock(d)
  /\ npc' = IF caught_signal THEN "returned" ELSE "sync_event"
  /\ UNCHANGED <<ptpc, ret, sap_timer, sap>>

(* and its timeout is a failure, however long it took. *)
SyncTimer ==
  /\ npc = "sync_timer"
  /\ npc' = IF -sync.timeout_timer >= PtpTimeout THEN "failed" ELSE "sync_head"
  /\ UNCHANGED <<ptpc, sync, ret, sap_timer, sap>>

ptp_sync_loop ==
  \/ Net!SyncStart
  \/ \E d \in 0..MaxStep : SyncHead(d)
  \/ \E m \in Net!Received : Net!SyncEvent(m)
  \/ \E m \in Net!Received, sent \in Net!Sent : Net!SyncGeneral(m, sent)
  \/ SyncTimer

SimplePtpc ==
  /\ program = "simple-ptpc" /\ main = "created"
  /\ clientUnchanged
  /\ ptpc_announce_msg_loop \/ ptp_sync_loop
  /\ LoopEnds
  /\ UNCHANGED sap_msg

(* sap_loop of simple-sapc. *)
SapcStart(ok) ==
  /\ npc = "sapc_start"
  /\ sap_msg' = build_sap_msg("ANNOUNCE", session, 0)
  /\ sap' = IF ok THEN "announced" ELSE sap
  /\ sap_timer' = 0
  /\ npc' = IF ok THEN "sapc_head" ELSE "failed"

SapcHead(d) ==
  /\ npc = "sapc_head"
  /\ sap_timer' = Net!Aged(sap_timer, d)
  /\ npc' = IF caught_signal THEN "returned" ELSE "sapc_timer"
  /\ UNCHANGED <<sap, sap_msg>>

SapcTimer(ok) ==
  /\ npc = "sapc_timer"
  /\ LET due == -sap_timer >= SapTimeout
     IN  /\ sap_timer' = IF due /\ ok THEN 0 ELSE sap_timer
         /\ npc' = IF due /\ ~ok THEN "failed" ELSE "sapc_head"
  /\ UNCHANGED <<sap, sap_msg>>

SimpleSapc ==
  /\ program = "simple-sapc" /\ main = "created"
  /\ clientUnchanged
  /\ \/ \E ok \in BOOLEAN : SapcStart(ok) \/ SapcTimer(ok)
     \/ \E d \in 0..MaxStep : SapcHead(d)
  /\ LoopEnds
  /\ UNCHANGED <<ptpc, sync, ret>>

(* rtp_loop of simple-rtpc-recv prints what it receives until SIGINT. *)
SimpleRtpcRecv ==
  /\ program = "simple-rtpc-recv" /\ main = "created"
  /\ caught_signal
  /\ clientUnchanged
  /\ npc' = "returned"
  /\ LoopEnds
  /\ UNCHANGED <<ptpc, sync, ret, sap_timer, sap, sap_msg>>

-----------------------------------------------------------------------------
MainThread == Context \/ DeviceMain \/ SimplePtpc \/ SimpleSapc \/ SimpleRtpcRecv

Signal == sig_handler /\ UNCHANGED <<program, session, loopVars>>

ProgramNext == MainThread \/ NetworkThread \/ AudioThread \/ Signal

(* Every thread is scheduled. *)
ProgramSpec ==
  /\ ProgramInit /\ [][ProgramNext]_progVars
  /\ WF_progVars(MainThread)
  /\ WF_progVars(NetworkThread)
  /\ WF_progVars(AudioThread)

-----------------------------------------------------------------------------
(* Whatever network_loop does, rtpdump and tonegen do to flags, threads    *)
(* and resources only what Device does.                                    *)
StepsOfDevice ==
  /\ program \in Devices => Init
  /\ [][(program \in Devices) => Next]_vars

(* And they do what Device promises to do, the termination of its network  *)
(* thread included: with network_loop in the place of an abstract thread,  *)
(* a thread that is told to stop does end.                                 *)
ProgressOfDevice == program \in Devices => Fairness

(* The network thread is network_loop: nothing another thread does touches *)
(* its state, and it is told to stop at most once, for good.               *)
StepsOfNetworkLoop ==
  /\ program \in Devices => Net!Init
  /\ [][(program \in Devices) => Net!Next]_(Net!vars)

(* A device leaves its session announced behind in two cases only: the     *)
(* audio thread could not be created and main returned under the network   *)
(* thread, or network_loop came to the deletion, built the message and     *)
(* could not send it, which is not tried again.  Every other way out       *)
(* passes the deletion message, sent while the sockets are still open.     *)
SessionLeftBehind ==
  program \in Devices /\ ~Alive /\ sap \in {"announced", "delete_failed"} =>
    \/ main = "failed" /\ audio = "none"
    \/ sap = "delete_failed" /\ npc = "failed" /\ sap_msg.flags = "DELETION"

(* The deletion names the PTP server of the announcement: no other server  *)
(* is taken over while the session is announced.  (Their o= lines do       *)
(* differ: they carry the second at which each message was built.)         *)
DeletesWhatItAnnounced ==
  [][sap_msg # NoMessage => sap_msg'.ptp_server_id = sap_msg.ptp_server_id]_progVars

(* Every description of a message fits into what snprintf may write, and   *)
(* all of them into the text: len, which adds up what snprintf would have  *)
(* written, counts no byte that is not there.                              *)
SapFits ==
  sap_msg # NoMessage =>
    /\ \A k \in DOMAIN sap_msg.sdp : sap_msg.sdp[k] < MAX_SDP_DESC_SIZE
    /\ sap_msg.len - SAP_HDR_SIZE <= MAX_SDP_MSG_SIZE

(* search_rtp_addr_from_sap_msg finds the address that build_sap_msg put   *)
(* into the message, although they disagree about what len counts, except  *)
(* where the address takes all fifteen characters, or the name holds "c="  *)
(* and there is not, behind the first one, this very address.              *)
SapReadBack ==
  sap_msg # NoMessage =>
    (search_rtp_addr_from_sap_msg(sap_msg) = session.mcast <=>
       /\ AddrLen(session.mcast) # 15
       /\ \A c \in session.name.marks :
            (\A e \in session.name.marks : c.at <= e.at) => c.addr = session.mcast)
=============================================================================
