-------------------------- MODULE PtpSessionProofs --------------------------
(***************************************************************************)
(* Proofs about the PTP client against its servers, for every number of    *)
(* servers, every range of sequence numbers and clock readings, and        *)
(* whatever the network loses, repeats or reorders.                        *)
(***************************************************************************)
EXTENDS PtpSession, TLAPS

Measurement ==
  [server : Server, seqid : 0..MaxSync, req : {"self", "other", "all"},
   t1 : Int, t2 : Int, t3 : Int, t4 : Int, sync_read : Int]

(* Types, and what each place in the loops implies.  Only a server that    *)
(* has sent a Sync owes a Follow_Up; answers carry the number of a Sync,   *)
(* which is never 0; nothing is asked or measured before a server has been *)
(* selected.                                                               *)
Types ==
  /\ TypeOK
  /\ time \in Nat
  /\ srv \in [Server -> [seqid : 0..MaxSync, owes : BOOLEAN]]
  /\ \A s \in Server : srv[s].seqid <= LastSync[s] /\ (srv[s].owes => srv[s].seqid > 0)
  /\ origin \in [Server -> [1..MaxSync -> Nat]]
  /\ sync_read \in 0..time
  /\ measured \in Seq(Measurement)
  /\ \A m \in event : m.type = "SYNC"
  /\ \A m \in general : m.type \in {"FOLLOW_UP", "DELAY_RESP"} => m.seqid > 0
  /\ pc = "announce" => requests = {} /\ measured = <<>> /\ sync.state = "S_INIT"
  /\ pc # "announce" => ptpc.ptp_server_id \in Server
  /\ pc \in {"event", "general"} => sync.synced_count < SyncTarget

-----------------------------------------------------------------------------
LEMMA InitTypes == Init => Types
BY SessionAssumption, WidthAssumption
   DEF Init, Types, TypeOK, SyncType, PtpcType, SyncContext, PtpcContext

(* The number of the next Sync.                                            *)
LEMMA NextSync ==
  ASSUME Types, NEW s \in Server
  PROVE  /\ (srv[s].seqid % LastSync[s]) + 1 \in 1..LastSync[s]
         /\ LastSync[s] \in 1..MaxSync
         /\ srv[s].seqid < LastSync[s] => (srv[s].seqid % LastSync[s]) + 1 = srv[s].seqid + 1
<1>1. LastSync[s] \in 1..MaxSync /\ MaxSync \in Nat /\ srv[s].seqid \in Nat
  BY SessionAssumption DEF Types
<1> DEFINE l == LastSync[s]
           x == srv[s].seqid
<1> HIDE DEF l, x
<1>2. l \in Nat \ {0} /\ x \in Nat
  BY <1>1 DEF l, x
<1>3. x % l \in 0 .. l - 1 /\ (x < l => x % l = x)
  BY <1>2
<1>4. QED
  BY <1>1, <1>2, <1>3 DEF l, x

(* Servers and the clock.                                                  *)
LEMMA OutsideTypes ==
  ASSUME Types, Tick \/ Servers \/ (\E n \in requests : Respond(n))
  PROVE  Types'
<1> USE SessionAssumption
<1>1. CASE Tick
  <2>1. time' \in Nat /\ time' > time
    BY <1>1 DEF Tick, Types
  <2>2. TypeOK'
    BY <1>1 DEF Tick, Types, TypeOK, clientVars, networkVars
  <2>3. QED
    BY <1>1, <2>1, <2>2, SMTT(60) DEF Tick, Types, clientVars, networkVars
<1>2. ASSUME NEW m \in MessageType, general' = general \cup {m},
             m.type \in {"FOLLOW_UP", "DELAY_RESP"} => m.seqid > 0,
             requests' \subseteq requests,
             UNCHANGED <<clientVars, event, srv, origin, time>>
      PROVE  Types'
  <2>1. TypeOK'
    BY <1>2 DEF Types, TypeOK, clientVars
  <2>2. QED
    BY <1>2, <2>1, Zenon DEF Types, clientVars
<1>3. ASSUME NEW s \in Server, NEW n \in AnnounceSeq, SendAnnounce(s, n) PROVE Types'
  <2> DEFINE m == Message("ANNOUNCE", s, n, 0, "all")
  <2>1. m \in MessageType /\ m.type = "ANNOUNCE"
    BY DEF Message, MessageType
  <2> HIDE DEF m
  <2>2. general' = general \cup {m}
    BY <1>3 DEF SendAnnounce, m
  <2>3. QED
    BY <1>2, <1>3, <2>1, <2>2 DEF SendAnnounce
<1>4. ASSUME NEW s \in Server, SendSync(s) PROVE Types'
  <2> DEFINE n == (srv[s].seqid % LastSync[s]) + 1
             m == Message("SYNC", s, n, 0, "all")
  <2>1. n \in 1..LastSync[s] /\ LastSync[s] \in 1..MaxSync /\ n \in 1..MaxSync
    BY NextSync
  <2>2. m \in MessageType /\ m.type = "SYNC"
    BY <2>1 DEF Message, MessageType
  <2> HIDE DEF n
  <2>3. /\ srv' = [srv EXCEPT ![s] = [seqid |-> n, owes |-> TRUE]]
        /\ event' = event \cup {m}
        /\ origin' = [origin EXCEPT ![s][n] = ServerTime(s)]
        /\ UNCHANGED <<clientVars, general, requests, time>>
    BY <1>4 DEF SendSync, n
  <2> HIDE DEF m
  <2>4. TypeOK'
    BY <2>2, <2>3, Zenon DEF Types, TypeOK, clientVars
  <2>5. /\ srv' \in [Server -> [seqid : 0..MaxSync, owes : BOOLEAN]]
        /\ \A t \in Server : srv'[t].seqid <= LastSync[t] /\ (srv'[t].owes => srv'[t].seqid > 0)
    BY <2>1, <2>3, SMTT(60) DEF Types
  <2>6. ServerTime(s) \in Nat
    BY DEF ServerTime, Types
  <2>7. origin' \in [Server -> [1..MaxSync -> Nat]]
    BY <2>1, <2>3, <2>6, Zenon DEF Types
  <2>8. QED
    BY <2>2, <2>3, <2>4, <2>5, <2>7, Zenon DEF Types, clientVars
<1>5. ASSUME NEW s \in Server, SendFollowUp(s) PROVE Types'
  <2> DEFINE n == srv[s].seqid
             m == Message("FOLLOW_UP", s, n, origin[s][n], "all")
  <2>0. n > 0
    BY <1>5, Zenon DEF SendFollowUp, Types
  <2>1. n \in 1..MaxSync /\ n \in 0..MaxSync /\ origin[s][n] \in Nat
    <3>1. srv[s].seqid \in 0..MaxSync
      BY DEF Types
    <3>2. n \in 1..MaxSync
      BY <2>0, <3>1
    <3>3. QED
      BY <3>1, <3>2 DEF Types
  <2>2. m \in MessageType /\ m.seqid = n
    BY <2>1 DEF Message, MessageType
  <2>3. /\ general' = general \cup {m}
        /\ srv' = [srv EXCEPT ![s].owes = FALSE]
        /\ UNCHANGED <<clientVars, event, requests, origin, time>>
    BY <1>5 DEF SendFollowUp
  <2> HIDE DEF m
  <2>4. TypeOK'
    BY <2>2, <2>3, Zenon DEF Types, TypeOK, clientVars
  <2>5. /\ srv' \in [Server -> [seqid : 0..MaxSync, owes : BOOLEAN]]
        /\ \A t \in Server : srv'[t].seqid <= LastSync[t] /\ (srv'[t].owes => srv'[t].seqid > 0)
    BY <2>3, ZenonT(60) DEF Types
  <2>6. m.seqid > 0
    BY <2>1, <2>2
  <2>7. QED
    BY <2>2, <2>3, <2>4, <2>5, <2>6, Zenon DEF Types, clientVars
<1>6. ASSUME NEW s \in Server, RespondOther(s) PROVE Types'
  <2> DEFINE m == Message("DELAY_RESP", s, srv[s].seqid, ServerTime(s), "other")
  <2>1. srv[s].seqid \in 0..MaxSync /\ srv[s].seqid > 0 /\ ServerTime(s) \in Nat
    BY <1>6 DEF RespondOther, Types, ServerTime
  <2>2. m \in MessageType /\ m.seqid = srv[s].seqid
    BY <2>1, Zenon DEF Message, MessageType
  <2> HIDE DEF m
  <2>3. general' = general \cup {m}
    BY <1>6 DEF RespondOther, m
  <2>4. QED
    BY <1>2, <1>6, <2>1, <2>2, <2>3 DEF RespondOther
<1>7. ASSUME NEW n \in requests, Respond(n) PROVE Types'
  <2> DEFINE s == ptpc.ptp_server_id
             m == Message("DELAY_RESP", s, n, ServerTime(s), "self")
  <2>0. s \in Server
    BY <1>7 DEF Types
  <2>1. n \in 0..MaxSync /\ n > 0 /\ ServerTime(s) \in Nat /\ s \in Server
    <3> HIDE DEF s
    <3> QED BY <1>7, <2>0 DEF Types, TypeOK, ServerTime
  <2>2. m \in MessageType /\ m.seqid = n
    BY <2>1, Zenon DEF Message, MessageType
  <2> HIDE DEF m
  <2>3. general' = general \cup {m}
    BY <1>7 DEF Respond, m
  <2>4. QED
    BY <1>2, <1>7, <2>1, <2>2, <2>3 DEF Respond
<1>8. QED
  BY <1>1, <1>3, <1>4, <1>5, <1>6, <1>7 DEF Servers
(* ptpc_announce_msg_loop and the head of ptpc_sync_loop.                  *)
LEMMA HeadTypes ==
  ASSUME Types, (\E m \in general \cup {Nothing} : PollAnnounce(m, general)) \/ LoopHead
  PROVE  Types'
<1> USE SessionAssumption
<1>1. ASSUME NEW m \in general \cup {Nothing}, PollAnnounce(m, general) PROVE Types'
  <2>1. /\ pc = "announce" /\ sync' = sync /\ general' = general
        /\ UNCHANGED <<sync_read, measured, event, requests, srv, origin, time>>
    BY <1>1 DEF PollAnnounce, ptpc_recv_announce_msg
  <2>2. CASE ret' = 1
    <3>1. m \in general /\ ptpc' = [ptpc EXCEPT !.ptp_server_id = m.clockId] /\ pc' = "head"
      BY <1>1, <2>2 DEF PollAnnounce, ptpc_recv_announce_msg, Arrived, Nothing
    <3>2. m.clockId \in Server
      BY <3>1 DEF Types, TypeOK, MessageType
    <3>3. ptpc' \in PtpcType(Server \cup {0}) /\ ptpc'.ptp_server_id \in Server
      BY <3>1, <3>2, Zenon DEF Types, TypeOK, PtpcType
    <3>4. TypeOK'
      BY <2>1, <3>1, <3>3, Zenon DEF Types, TypeOK
    <3>5. QED
      BY <2>1, <3>1, <3>3, <3>4, Zenon DEF Types
  <2>3. CASE ret' # 1
    <3>1. ptpc' = ptpc /\ pc' = "announce"
      BY <1>1, <2>3 DEF PollAnnounce, ptpc_recv_announce_msg
    <3>2. TypeOK'
      BY <2>1, <3>1 DEF Types, TypeOK
    <3>3. QED
      BY <2>1, <3>1, <3>2 DEF Types
  <2>4. QED
    BY <2>2, <2>3
<1>2. CASE LoopHead
  <2>1. sync' \in SyncType(0..MaxSync) /\ sync'.synced_count = sync.synced_count
    <3>1. sync \in SyncType(0..MaxSync) /\ time \in Int /\ sync' = [sync EXCEPT !.now = time]
      BY <1>2 DEF LoopHead, Types, TypeOK
    <3>2. QED
      BY <3>1 DEF SyncType
  <2>2. pc' = (IF sync.synced_count = SyncTarget THEN "done" ELSE "event") /\ pc = "head"
    BY <1>2 DEF LoopHead
  <2>3. TypeOK'
    BY <1>2, <2>1, <2>2, Zenon DEF LoopHead, networkVars, Types, TypeOK
  <2>4. pc' = "event" => sync'.synced_count < SyncTarget
    <3>1. sync.synced_count \in Nat /\ sync.synced_count <= SyncTarget
      BY DEF Types, TypeOK, SyncType
    <3>2. QED
      BY <2>1, <2>2, <3>1
  <2>5. QED
    BY <1>2, <2>2, <2>3, <2>4, Zenon DEF LoopHead, networkVars, Types
<1>3. QED
  BY <1>1, <1>2

(* One poll of the event socket.                                           *)
LEMMA EventTypes ==
  ASSUME Types, NEW m \in event \cup {Nothing, Failure}, PollEvent(m, event)
  PROVE  Types'
<1> USE SessionAssumption
<1>1. /\ pc = "event" /\ pc' \in {"general", "failed"}
      /\ UNCHANGED <<ptpc, event, measured, general, requests, srv, origin, time>>
  BY DEF PollEvent, ptpc_recv_sync_msg
<1>2. m.type = "SYNC" => m.seqid \in 0..MaxSync
  BY DEF Types, TypeOK, MessageType, Nothing, Failure
<1>3. /\ sync' \in SyncType(0..MaxSync) /\ sync'.synced_count = sync.synced_count
  <2>1. sync \in SyncType(0..MaxSync) /\ time \in Int
    BY DEF Types, TypeOK
  <2>2. QED
    BY <1>2, <2>1, Zenon DEF PollEvent, ptpc_recv_sync_msg, SyncType
<1>4. sync_read' \in 0..time
  BY DEF PollEvent, Types
<1>5. TypeOK'
  BY <1>1, <1>3 DEF Types, TypeOK
<1>6. QED
  BY <1>1, <1>3, <1>4, <1>5, Zenon DEF Types

(* One poll of the general socket, each way through                        *)
(* ptpc_recv_general_packet.                                               *)
LEMMA GeneralTypes ==
  ASSUME Types, NEW m \in general \cup event \cup {Nothing, Failure},
         NEW sent \in {"ok", "again", "error"}, PollGeneral(m, general, sent)
  PROVE  Types'
<1> USE SessionAssumption
<1>1. /\ pc = "general" /\ pc' \in {"head", "failed"}
      /\ UNCHANGED <<sync_read, event, general, srv, origin, time>>
      /\ ptpc_recv_general_packet(m, time, sent)
  BY DEF PollGeneral
<1>2. /\ sync \in SyncType(0..MaxSync) /\ time \in Nat /\ sync.synced_count < SyncTarget
      /\ ptpc \in PtpcType(Server \cup {0}) /\ ptpc.ptp_server_id \in Server
      /\ measured \in Seq(Measurement) /\ sync_read \in Int /\ requests \subseteq 1..MaxSync
  BY <1>1 DEF Types, TypeOK
<1>3. Arrived(m) => m \in MessageType
  BY DEF Types, TypeOK, Arrived, Nothing, Failure
<1>4. m.type \in {"FOLLOW_UP", "DELAY_RESP"} => m \in general /\ m.seqid \in 1..MaxSync
  BY DEF Types, TypeOK, MessageType, Nothing, Failure
<1>5. ASSUME sync' \in SyncType(0..MaxSync), ptpc' \in PtpcType(Server \cup {0}),
             ptpc'.ptp_server_id = ptpc.ptp_server_id, sync'.synced_count <= SyncTarget,
             requests' \subseteq 1..MaxSync, measured' \in Seq(Measurement)
      PROVE  Types'
  <2>1. TypeOK'
    BY <1>1, <1>5, Zenon DEF Types, TypeOK
  <2>2. QED
    BY <1>1, <1>2, <1>5, <2>1, Zenon DEF Types
<1>6. CASE UNCHANGED <<sync, ptpc>>
  <2>1. requests' = requests /\ measured' = measured
    BY <1>6 DEF PollGeneral
  <2>2. sync.synced_count <= SyncTarget
    BY <1>2 DEF SyncType
  <2>3. QED
    BY <1>2, <1>5, <1>6, <2>1, <2>2
<1>7. CASE OtherSequence(m)
  <2>1. /\ sync' \in SyncType(0..MaxSync) /\ sync'.synced_count = sync.synced_count
        /\ sync'.state = "S_INIT" /\ ptpc' = ptpc
    <3> DEFINE s == ptp_sync_state_reset(sync)
    <3>1. s \in SyncType(0..MaxSync) /\ s.state = "S_INIT" /\ s.synced_count = sync.synced_count
      <4>1. s \in SyncType(0..MaxSync)
        <5> DEFINE z == 0
        <5>1. z \in Int
          OBVIOUS
        <5>2. s = [sync EXCEPT !.t1 = z, !.t2 = z, !.t3 = z, !.t4 = z, !.state = "S_INIT"]
          BY DEF ptp_sync_state_reset
        <5> HIDE DEF z, s
        <5>3. QED
          BY <1>2, <5>1, <5>2, Zenon DEF SyncType
      <4>2. s.state = "S_INIT"
        BY <1>2 DEF ptp_sync_state_reset, SyncType
      <4>3. s.synced_count = sync.synced_count
        BY <1>2 DEF ptp_sync_state_reset, SyncType
      <4>4. QED
        BY <4>1, <4>2, <4>3
    <3>2. sync.now \in Int
      BY <1>2 DEF SyncType
    <3>3. sync' = [s EXCEPT !.timeout_timer = sync.now] /\ ptpc' = ptpc
      BY <1>7 DEF OtherSequence
    <3> HIDE DEF s
    <3>4. QED
      BY <3>1, <3>2, <3>3 DEF SyncType
  <2>2. requests' = requests /\ measured' = measured
    BY <2>1 DEF PollGeneral
  <2>3. sync.synced_count <= SyncTarget
    BY <1>2 DEF SyncType
  <2>4. QED
    BY <1>2, <1>5, <2>1, <2>2, <2>3
<1>8. CASE FollowUp(m, time, sent)
  <2>1. m.type = "FOLLOW_UP" /\ m.seqid = sync.seqid /\ ptpc' = ptpc /\ m.ts \in Int
    BY <1>3, <1>8 DEF FollowUp, Expected, InDomain, MessageType
  <2>2. sync' \in SyncType(0..MaxSync) /\ sync'.synced_count = sync.synced_count
    <3>1. sync \in SyncType(0..MaxSync) /\ time \in Int /\ m.ts \in Int /\ sync.now \in Int
      BY <1>2, <2>1 DEF SyncType
    <3>2. CASE sent = "error"
      BY <1>8, <3>1, <3>2 DEF FollowUp, SyncType
    <3>3. CASE sent # "error"
      BY <1>8, <3>1, <3>3, Zenon DEF FollowUp, SyncType
    <3>4. QED
      BY <3>2, <3>3
  <2>3. requests' \subseteq 1..MaxSync /\ measured' = measured
    BY <1>2, <1>4, <2>1, <2>2, Zenon DEF PollGeneral
  <2>4. sync.synced_count <= SyncTarget
    BY <1>2 DEF SyncType
  <2>5. QED
    BY <1>2, <1>5, <2>1, <2>2, <2>3, <2>4
<1>9. CASE DelayResp(m)
  <2>1. /\ m.ts \in Int /\ m.seqid \in 0..MaxSync /\ m.req \in {"self", "other", "all"}
        /\ m.clockId \in Server
    BY <1>3, <1>9 DEF DelayResp, Expected, InDomain, MessageType
  <2> DEFINE s == [sync EXCEPT !.t4 = m.ts]
             delay == ptp_mean_path_delay(s)
             n == (sync.synced_count + 1) % U8
  <2>2. /\ s \in SyncType(0..MaxSync) /\ s.synced_count = sync.synced_count
        /\ s.state = sync.state /\ sync.now \in Int
    BY <1>2, <2>1, Zenon DEF SyncType
  <2>3. n \in 0 .. U8 - 1 /\ n <= SyncTarget
    <3> DEFINE c == sync.synced_count
    <3>1. c \in 0 .. U8 - 1 /\ c < SyncTarget
      BY <1>2 DEF SyncType
    <3> HIDE DEF c
    <3>2. (c + 1) % U8 = IF c + 1 = U8 THEN 0 ELSE c + 1
      BY <3>1, WidthAssumption
    <3>3. QED
      BY <3>1, <3>2, WidthAssumption DEF c
  <2>4. sync' \in SyncType(0..MaxSync) /\ sync'.synced_count <= SyncTarget /\ sync'.state = sync.state
    <3>1. sync' = [s EXCEPT !.synced_count = n, !.timeout_timer = sync.now]
      BY <1>9, <2>2 DEF DelayResp
    <3> HIDE DEF s, n
    <3>2. QED
      BY <2>2, <2>3, <3>1, Zenon DEF SyncType
  <2>5. delay \in Int /\ ptp_offset(delay, s) \in Int
    <3> HIDE DEF s
    <3>1. s.t1 \in Int /\ s.t2 \in Int /\ s.t3 \in Int /\ s.t4 \in Int
      BY <2>2 DEF SyncType
    <3>2. QED
      BY <3>1 DEF ptp_mean_path_delay, Halved, ptp_offset
  <2>6. ptpc' \in PtpcType(Server \cup {0}) /\ ptpc'.ptp_server_id = ptpc.ptp_server_id
    <3>1. ptpc' \in {ptpc, [ptpc EXCEPT !.mean_path_delay = delay,
                                       !.ptp_offset = ptp_offset(delay, s)]}
      BY <1>9 DEF DelayResp
    <3> HIDE DEF s, delay
    <3>2. QED
      BY <1>2, <2>5, <3>1, Zenon DEF PtpcType
  <2>7. requests' = requests
    BY <2>4 DEF PollGeneral
  <2>8. measured' \in Seq(Measurement)
    <3> DEFINE x == [server |-> m.clockId, seqid |-> m.seqid, req |-> m.req,
                     t1 |-> sync'.t1, t2 |-> sync'.t2, t3 |-> sync'.t3, t4 |-> sync'.t4,
                     sync_read |-> sync_read]
    <3>1. x \in Measurement
      BY <1>2, <2>1, <2>4, Zenon DEF Measurement, SyncType
    <3>2. measured' \in {measured, Append(measured, x)}
      BY Zenon DEF PollGeneral
    <3> HIDE DEF x
    <3>3. QED
      BY <1>2, <3>1, <3>2, SMTT(60)
  <2>9. QED
    BY <1>2, <1>5, <2>4, <2>6, <2>7, <2>8
<1>10. QED
  BY <1>1, <1>6, <1>7, <1>8, <1>9, Zenon
     DEF ptpc_recv_general_packet, RecvFails, Ignored, NewServer

LEMMA TypesInvariant == Spec => []Types
<1>1. Types /\ UNCHANGED vars => Types'
  BY DEF Types, TypeOK, vars, clientVars, networkVars
<1>2. Types /\ [Next]_vars => Types'
  BY <1>1, OutsideTypes, HeadTypes, EventTypes, GeneralTypes DEF Next, Polls
<1>3. QED
  BY <1>2, InitTypes, PTL DEF Spec
-----------------------------------------------------------------------------
(* Server s has sent the Sync of number n, and without a wrap will not     *)
(* send another of that number.                                            *)
Begun(s, n) == s \in Server /\ n \in 1..srv[s].seqid

(* A message under way tells the time of a Sync, or a later one.           *)
Sound(m) ==
  /\ m.type \in {"FOLLOW_UP", "DELAY_RESP"} => Begun(m.clockId, m.seqid)
  /\ m.type = "FOLLOW_UP" => m.ts = origin[m.clockId][m.seqid]
  /\ m.type = "DELAY_RESP" =>
       origin[m.clockId][m.seqid] <= m.ts /\ m.ts <= ServerTime(m.clockId)

(* What the messages under way and the client know of the servers' clocks. *)
(* MeasuredCoherently alone is not inductive: a measurement is made of t1, *)
(* kept since the Follow_Up, and of the time in a Delay_Resp, both of a    *)
(* Sync the selected server has sent before; and between the two general   *)
(* polls that read these there is an event poll, which sets t2 after t3.   *)
Coherent ==
  /\ \A s \in Server, n \in 1..MaxSync : origin[s][n] <= ServerTime(s)
  /\ \A m \in general : Sound(m)
  /\ \A n \in requests : Begun(ptpc.ptp_server_id, n)
  /\ sync.state = "S_FOLLOW_UP" =>
       /\ Begun(ptpc.ptp_server_id, sync.seqid)
       /\ sync.t1 = origin[ptpc.ptp_server_id][sync.seqid]
       /\ sync_read <= sync.t3 /\ sync.t3 <= time
       /\ pc = "general" => sync.t3 <= sync.t2 /\ sync.t2 <= time
  /\ \A k \in 1..Len(measured) : Begun(ptpc.ptp_server_id, measured[k].seqid)
  /\ MeasuredCoherently

LEMMA InitCoherent == Init => Coherent
BY SessionAssumption DEF Init, Coherent, MeasuredCoherently, ServerTime, SyncContext

(* A server that numbers its Syncs upwards does not touch the time of one  *)
(* it has sent.                                                            *)
LEMMA SyncIsNew ==
  ASSUME Types, ~Wraps, NEW s \in Server, SendSync(s)
  PROVE  /\ \A t, n : Begun(t, n) => Begun(t, n)' /\ origin'[t][n] = origin[t][n]
         /\ \A t \in Server, n \in 1..MaxSync : origin'[t][n] \in {origin[t][n], ServerTime(t)}
<1> DEFINE k == srv[s].seqid + 1
<1>1. /\ srv[s].seqid < LastSync[s]
      /\ srv' = [srv EXCEPT ![s] = [seqid |-> k, owes |-> TRUE]]
      /\ origin' = [origin EXCEPT ![s][k] = ServerTime(s)]
  BY NextSync, Zenon DEF SendSync
<1>2. srv \in [Server -> [seqid : 0..MaxSync, owes : BOOLEAN]]
  BY Zenon DEF Types
<1>3. origin \in [Server -> [1..MaxSync -> Nat]] /\ LastSync[s] \in 1..MaxSync /\ MaxSync \in Nat
  BY SessionAssumption, Zenon DEF Types
<1>4. srv[s].seqid \in Nat /\ k \in 1..MaxSync
  BY <1>1, <1>2, <1>3
<1>5. ASSUME NEW t, NEW n, Begun(t, n)
      PROVE  Begun(t, n)' /\ origin'[t][n] = origin[t][n]
  <2>1. t \in Server /\ n \in 1..srv[t].seqid /\ srv[t].seqid \in 0..MaxSync
    BY <1>2, <1>5 DEF Begun
  <2>2. n \in 1..MaxSync
    BY <1>3, <2>1
  <2>3. CASE t = s
    <3>1. n # k /\ n \in 1..k
      BY <1>4, <2>1, <2>3
    <3>2. srv'[t].seqid = k
      BY <1>1, <1>2, <2>1, <2>3
    <3>3. origin'[t][n] = origin[t][n]
      BY <1>1, <1>3, <2>1, <2>2, <2>3, <3>1
    <3>4. QED
      BY <2>1, <3>1, <3>2, <3>3 DEF Begun
  <2>4. CASE t # s
    <3>1. srv'[t] = srv[t] /\ origin'[t] = origin[t]
      BY <1>1, <1>2, <1>3, <2>1, <2>4
    <3>2. QED
      BY <2>1, <3>1 DEF Begun
  <2>5. QED
    BY <2>3, <2>4
<1>6. ASSUME NEW t \in Server, NEW n \in 1..MaxSync
      PROVE  origin'[t][n] \in {origin[t][n], ServerTime(t)}
  BY <1>1, <1>3, <1>4
<1>7. QED
  BY <1>5, <1>6, Zenon

(* Servers' clocks go forward with the client's.                           *)
LEMMA ClocksAdvance ==
  ASSUME Types, NEW s \in Server
  PROVE  /\ ServerTime(s) \in Nat
         /\ time' \in Nat /\ time <= time' => ServerTime(s) <= ServerTime(s)' /\ ServerTime(s)' \in Nat
<1> DEFINE o == Offset[s]
<1>1. o \in Nat /\ time \in Nat
  BY SessionAssumption DEF Types
<1>2. ServerTime(s) = time + o /\ ServerTime(s)' = time' + o
  BY DEF ServerTime
<1> HIDE DEF o
<1> QED BY <1>1, <1>2

(* What is said of the measurements goes on being so while time passes.    *)
LEMMA MeasuredStay ==
  ASSUME Types, MeasuredCoherently, measured' = measured, time' \in Nat, time <= time',
         ptpc'.ptp_server_id = ptpc.ptp_server_id,
         \A k \in 1..Len(measured) :
           origin'[ptpc.ptp_server_id][measured[k].seqid] = origin[ptpc.ptp_server_id][measured[k].seqid]
  PROVE  MeasuredCoherently'
<1> SUFFICES ASSUME NEW k \in 1..Len(measured), NEW x, x = measured[k]
             PROVE  /\ x.server = ptpc.ptp_server_id
                    /\ x.t1 = origin'[x.server][x.seqid]
                    /\ x.t1 <= x.t4 /\ x.t4 <= ServerTime(x.server)'
                    /\ x.sync_read <= x.t3 /\ x.t3 <= x.t2 /\ x.t2 <= time'
  BY Zenon DEF MeasuredCoherently, ServerTime
<1>1. /\ x.server = ptpc.ptp_server_id /\ x.t1 = origin[x.server][x.seqid]
      /\ x.t1 <= x.t4 /\ x.t4 <= ServerTime(x.server)
      /\ x.sync_read <= x.t3 /\ x.t3 <= x.t2 /\ x.t2 <= time
  BY Zenon DEF MeasuredCoherently
<1>2. x \in Measurement
  BY DEF Types
<1>3. x.server \in Server /\ x.t4 \in Int /\ x.t2 \in Int
  BY <1>2, Zenon DEF Measurement
<1>4. /\ ServerTime(x.server) \in Nat /\ ServerTime(x.server)' \in Nat
      /\ ServerTime(x.server) <= ServerTime(x.server)'
  BY <1>3, ClocksAdvance, Zenon
<1>5. x.t4 <= ServerTime(x.server)'
  <2> DEFINE u == ServerTime(x.server)
             v == ServerTime(x.server)'
  <2>1. u \in Nat /\ v \in Nat /\ u <= v /\ x.t4 <= u
    BY <1>1, <1>4, Zenon
  <2> HIDE DEF u, v
  <2>2. x.t4 <= v
    BY <1>3, <2>1
  <2> QED BY <2>2, Zenon DEF v
<1>6. x.t2 <= time'
  <2>1. time \in Nat
    BY Zenon DEF Types
  <2> QED BY <1>1, <1>3, <2>1
<1>7. x.t1 = origin'[x.server][x.seqid]
  BY <1>1, Zenon
<1> QED BY <1>1, <1>5, <1>6, <1>7, Zenon

(* What servers and the clock do leaves the client alone and the times of  *)
(* the Syncs sent as they are; time may pass, and sound messages be sent.  *)
LEMMA OutsideKeeps ==
  ASSUME Types, Coherent, UNCHANGED clientVars, time' \in Nat, time <= time',
         \A t, n : Begun(t, n) => Begun(t, n)' /\ origin'[t][n] = origin[t][n],
         \A t \in Server, n \in 1..MaxSync : origin'[t][n] \in {origin[t][n], ServerTime(t)},
         \A m \in general' : m \in general \/ Sound(m)',
         requests' \subseteq requests
  PROVE  Coherent'
<1>1. /\ ptpc' = ptpc /\ sync' = sync /\ sync_read' = sync_read /\ measured' = measured
      /\ pc' = pc
  BY Zenon DEF clientVars
<1>2. \A t \in Server, n \in 1..MaxSync : origin'[t][n] <= ServerTime(t)'
  <2> SUFFICES ASSUME NEW t \in Server, NEW n \in 1..MaxSync PROVE origin'[t][n] <= ServerTime(t)'
    BY Zenon
  <2> DEFINE u == ServerTime(t)
             v == ServerTime(t)'
             p == origin[t][n]
             q == origin'[t][n]
  <2>1. u \in Nat /\ v \in Nat /\ u <= v
    BY ClocksAdvance, Zenon
  <2>2. p \in Nat /\ p <= u /\ q \in {p, u}
    BY Zenon DEF Types, Coherent
  <2> HIDE DEF u, v, p, q
  <2>3. q <= v
    BY <2>1, <2>2
  <2> QED BY <2>3, Zenon DEF q, v
<1>3. ASSUME NEW m \in general PROVE Sound(m)'
  <2>1. Sound(m) /\ m \in MessageType
    BY Zenon DEF Types, TypeOK, Coherent
  <2>2. m.clockId \in Server /\ m.ts \in Nat
    BY <2>1, Zenon DEF MessageType
  <2>3. m.ts <= ServerTime(m.clockId) => m.ts <= ServerTime(m.clockId)'
    <3> DEFINE u == ServerTime(m.clockId)
               v == ServerTime(m.clockId)'
    <3>1. u \in Nat /\ v \in Nat /\ u <= v
      BY <2>2, ClocksAdvance, Zenon
    <3> HIDE DEF u, v
    <3>2. m.ts <= u => m.ts <= v
      BY <2>2, <3>1
    <3> QED BY <3>2, Zenon DEF u, v
  <2>4. CASE m.type \in {"FOLLOW_UP", "DELAY_RESP"}
    <3>1. /\ Begun(m.clockId, m.seqid)'
          /\ origin'[m.clockId][m.seqid] = origin[m.clockId][m.seqid]
      BY <2>1, <2>4, Zenon DEF Sound
    <3> QED BY <2>1, <2>3, <3>1, Zenon DEF Sound
  <2>5. CASE m.type \notin {"FOLLOW_UP", "DELAY_RESP"}
    BY <2>5, Zenon DEF Sound
  <2> QED BY <2>4, <2>5, Zenon
<1>4. \A m \in general' : Sound(m)'
  BY <1>3, Zenon
<1>5. \A n \in requests' : Begun(ptpc.ptp_server_id, n)'
  <2>1. \A n \in requests : Begun(ptpc.ptp_server_id, n)
    BY Zenon DEF Coherent
  <2> QED BY <1>1, <2>1, Zenon DEF Begun
<1>6. \A k \in 1..Len(measured) :
        /\ Begun(ptpc.ptp_server_id, measured[k].seqid)
        /\ origin'[ptpc.ptp_server_id][measured[k].seqid] = origin[ptpc.ptp_server_id][measured[k].seqid]
  BY Zenon DEF Coherent
<1>7. MeasuredCoherently'
  BY <1>1, <1>6, MeasuredStay, Zenon DEF Coherent
<1>8. (\A k \in 1..Len(measured) : Begun(ptpc.ptp_server_id, measured[k].seqid))'
  BY <1>1, <1>6, Zenon DEF Begun
<1>9. ASSUME sync.state = "S_FOLLOW_UP"
      PROVE  /\ Begun(ptpc.ptp_server_id, sync.seqid)'
             /\ sync.t1 = origin'[ptpc.ptp_server_id][sync.seqid]
             /\ sync_read <= sync.t3 /\ sync.t3 <= time'
             /\ pc = "general" => sync.t3 <= sync.t2 /\ sync.t2 <= time'
  <2>1. /\ Begun(ptpc.ptp_server_id, sync.seqid)
        /\ sync.t1 = origin[ptpc.ptp_server_id][sync.seqid]
        /\ sync_read <= sync.t3 /\ sync.t3 <= time
        /\ pc = "general" => sync.t3 <= sync.t2 /\ sync.t2 <= time
    BY <1>9, Zenon DEF Coherent
  <2>2. sync.t2 \in Int /\ sync.t3 \in Int /\ time \in Nat
    BY Zenon DEF Types, TypeOK, SyncType
  <2>3. sync.t3 <= time' /\ (sync.t2 <= time => sync.t2 <= time')
    BY <2>1, <2>2
  <2> QED BY <1>1, <2>1, <2>3, Zenon DEF Begun
<1> QED BY <1>1, <1>2, <1>4, <1>5, <1>7, <1>8, <1>9, Zenon DEF Coherent

(* Servers and the clock.                                                  *)
LEMMA OutsideCoherent ==
  ASSUME Types, Coherent, ~Wraps, Tick \/ Servers \/ (\E n \in requests : Respond(n))
  PROVE  Coherent'
<1>0. time \in Nat /\ time <= time
  BY DEF Types
<1>1. \A t \in Server, n \in 1..MaxSync : origin[t][n] \in {origin[t][n], ServerTime(t)}
  BY Zenon
<1>2. CASE Tick
  <2>1. time' \in Nat /\ time <= time'
    BY <1>2, SessionAssumption DEF Tick, Types
  <2>2. UNCHANGED <<clientVars, networkVars>>
    BY <1>2 DEF Tick
  <2>3. UNCHANGED <<event, general, requests, srv, origin>>
    BY <2>2, Zenon DEF networkVars
  <2>4. \A t, n : Begun(t, n) => Begun(t, n)'
    BY <2>3, Zenon DEF Begun
  <2> QED BY <1>1, <2>1, <2>2, <2>3, <2>4, OutsideKeeps, ZenonT(30)
<1>3. ASSUME NEW s \in Server, SendSync(s) PROVE Coherent'
  <2>1. /\ \A t, n : Begun(t, n) => Begun(t, n)' /\ origin'[t][n] = origin[t][n]
        /\ \A t \in Server, n \in 1..MaxSync : origin'[t][n] \in {origin[t][n], ServerTime(t)}
    BY <1>3, SyncIsNew, Zenon
  <2>2. UNCHANGED <<clientVars, general, requests, time>>
    BY <1>3 DEF SendSync
  <2> QED BY <1>0, <2>1, <2>2, OutsideKeeps, ZenonT(30)
<1>4. ASSUME NEW m, general' = general \cup {m}, UNCHANGED <<clientVars, origin, time>>,
             \A t \in Server : srv'[t].seqid = srv[t].seqid, requests' \subseteq requests,
             Sound(m)
      PROVE  Coherent'
  <2>1. \A t, n : Begun(t, n) => Begun(t, n)'
    BY <1>4, Zenon DEF Begun
  <2>2. ServerTime(m.clockId)' = ServerTime(m.clockId)
    BY <1>4, Zenon DEF ServerTime
  <2>3. Sound(m)'
    BY <1>4, <2>1, <2>2, Zenon DEF Sound
  <2> QED BY <1>0, <1>1, <1>4, <2>1, <2>3, OutsideKeeps, ZenonT(30)
<1>5. ASSUME NEW s \in Server, NEW n \in AnnounceSeq, SendAnnounce(s, n) PROVE Coherent'
  <2> DEFINE m == Message("ANNOUNCE", s, n, 0, "all")
  <2>1. m.type = "ANNOUNCE"
    BY Zenon DEF Message
  <2> HIDE DEF m
  <2>2. general' = general \cup {m} /\ srv' = srv /\ requests' = requests
    BY <1>5 DEF SendAnnounce, m
  <2>3. UNCHANGED <<clientVars, origin, time>>
    BY <1>5 DEF SendAnnounce
  <2>4. Sound(m)
    BY <2>1 DEF Sound
  <2>5. QED
    BY <1>4, <2>2, <2>3, <2>4, Zenon
<1>6. ASSUME NEW s \in Server, SendFollowUp(s) PROVE Coherent'
  <2> DEFINE n == srv[s].seqid
             m == Message("FOLLOW_UP", s, n, origin[s][n], "all")
  <2>1. m.type = "FOLLOW_UP" /\ m.clockId = s /\ m.seqid = n /\ m.ts = origin[s][n]
    BY Zenon DEF Message
  <2>2. general' = general \cup {m} /\ srv' = [srv EXCEPT ![s].owes = FALSE] /\ requests' = requests
    BY <1>6 DEF SendFollowUp
  <2>3. UNCHANGED <<clientVars, origin, time>>
    BY <1>6 DEF SendFollowUp
  <2> HIDE DEF m
  <2>4. \A t \in Server : srv'[t].seqid = srv[t].seqid
    BY <2>2 DEF Types
  <2>5. n > 0
    BY <1>6, Zenon DEF SendFollowUp, Types
  <2>6. Begun(s, n)
    <3>1. n \in 0..MaxSync
      BY DEF Types
    <3>2. QED
      BY <2>5, <3>1 DEF Begun
  <2>7. Sound(m)
    <3> HIDE DEF n
    <3> QED BY <2>1, <2>6 DEF Sound
  <2>8. QED
    BY <1>4, <2>2, <2>3, <2>4, <2>7, SMTT(60)
<1>7. ASSUME NEW s \in Server, NEW n, Begun(s, n), NEW req, requests' \subseteq requests,
             general' = general \cup {Message("DELAY_RESP", s, n, ServerTime(s), req)},
             UNCHANGED <<clientVars, srv, origin, time>>
      PROVE  Coherent'
  <2> DEFINE m == Message("DELAY_RESP", s, n, ServerTime(s), req)
  <2>1. m.type = "DELAY_RESP" /\ m.clockId = s /\ m.seqid = n /\ m.ts = ServerTime(s)
    BY Zenon DEF Message
  <2> HIDE DEF m
  <2>2. origin[s][n] <= ServerTime(s) /\ ServerTime(s) <= ServerTime(s)
    <3>1. n \in 1..MaxSync
      <4>1. srv[s].seqid \in 0..MaxSync /\ n \in 1..srv[s].seqid /\ MaxSync \in Nat
        BY <1>7, SessionAssumption, Zenon DEF Types, Begun
      <4>2. QED
        BY <4>1
    <3>2. origin[s][n] <= ServerTime(s) /\ ServerTime(s) \in Nat
      BY <3>1, ClocksAdvance, Zenon DEF Coherent
    <3>3. QED
      BY <3>2
  <2>3. general' = general \cup {m} /\ UNCHANGED <<clientVars, origin, time>> /\ srv' = srv
    BY <1>7 DEF m
  <2>4. Sound(m)
    BY <1>7, <2>1, <2>2 DEF Sound
  <2>5. QED
    BY <1>4, <1>7, <2>3, <2>4, Zenon
<1>8. ASSUME NEW s \in Server, RespondOther(s) PROVE Coherent'
  <2>1. srv[s].seqid \in 0..MaxSync /\ srv[s].seqid # 0
    BY <1>8, Zenon DEF RespondOther, Types
  <2>2. Begun(s, srv[s].seqid)
    BY <2>1 DEF Begun
  <2>3. QED
    BY <1>7, <1>8, <2>2, Zenon DEF RespondOther
<1>9. ASSUME NEW n \in requests, Respond(n) PROVE Coherent'
  <2>1. Begun(ptpc.ptp_server_id, n)
    BY Zenon DEF Coherent
  <2>2. ptpc.ptp_server_id \in Server
    BY <2>1 DEF Begun
  <2>3. requests' \subseteq requests
    BY <1>9 DEF Respond
  <2>4. QED
    BY <1>7, <1>9, <2>1, <2>2, <2>3, Zenon DEF Respond
<1>10. QED
  BY <1>2, <1>3, <1>5, <1>6, <1>8, <1>9 DEF Servers

(* While the client waits for an Announce there is nothing to mix up; the  *)
(* head of ptpc_sync_loop only reads the clock.                            *)
LEMMA HeadCoherent ==
  ASSUME Types, Coherent,
         (\E m \in general \cup {Nothing} : PollAnnounce(m, general)) \/ LoopHead
  PROVE  Coherent'
<1>1. ASSUME NEW m \in general \cup {Nothing}, PollAnnounce(m, general) PROVE Coherent'
  <2>1. UNCHANGED <<sync, sync_read, measured, general, requests, srv, origin, time>>
    BY <1>1, SMTT(60) DEF PollAnnounce, ptpc_recv_announce_msg
  <2>2. requests = {} /\ Len(measured) = 0 /\ 1..0 = {} /\ sync.state # "S_FOLLOW_UP"
    BY <1>1 DEF PollAnnounce, Types
  <2>3. QED
    BY <2>1, <2>2, Zenon DEF Coherent, MeasuredCoherently, Sound, Begun, ServerTime
<1>2. CASE LoopHead
  <2>1. /\ UNCHANGED <<ptpc, sync_read, measured, general, requests, srv, origin, time>>
        /\ sync' = [sync EXCEPT !.now = time] /\ sync \in SyncType(0..MaxSync)
    BY <1>2 DEF LoopHead, networkVars, Types, TypeOK
  <2>2. sync'.state = sync.state /\ sync'.seqid = sync.seqid /\ sync'.t1 = sync.t1 /\ sync'.t3 = sync.t3
    BY <2>1 DEF SyncType
  <2>3. pc' # "general"
    BY <1>2 DEF LoopHead
  <2>4. QED
    BY <2>1, <2>2, <2>3, Zenon DEF Coherent, MeasuredCoherently, Sound, Begun, ServerTime
<1>3. QED
  BY <1>1, <1>2, SMTT(60)

(* One poll of the event socket: a Sync begins an exchange, of whichever   *)
(* server; t1 and t3 of one that is on are left alone.                     *)
LEMMA EventCoherent ==
  ASSUME Types, Coherent, NEW m \in event \cup {Nothing, Failure}, PollEvent(m, event)
  PROVE  Coherent'
<1>1. UNCHANGED <<ptpc, measured, general, requests, srv, origin, time>>
  BY DEF PollEvent, ptpc_recv_sync_msg
<1>2. sync \in SyncType(0..MaxSync)
  BY SMTT(60) DEF Types, TypeOK
<1>3. CASE sync.state = "S_FOLLOW_UP"
  <2>1. sync' = [sync EXCEPT !.t2 = time]
    BY <1>3 DEF PollEvent, ptpc_recv_sync_msg
  <2>2. /\ sync'.state = sync.state /\ sync'.seqid = sync.seqid /\ sync'.t1 = sync.t1
        /\ sync'.t3 = sync.t3 /\ sync'.t2 = time
    BY <1>2, <2>1 DEF SyncType
  <2>3. sync_read' = sync_read
    BY <2>2, Zenon DEF PollEvent
  <2>4. time <= time
    BY DEF Types
  <2>5. QED
    BY <1>1, <2>2, <2>3, <2>4, Zenon DEF Coherent, MeasuredCoherently, Sound, Begun, ServerTime
<1>4. CASE sync.state # "S_FOLLOW_UP"
  <2>1. sync'.state # "S_FOLLOW_UP"
    BY <1>2, <1>4, SMTT(60) DEF PollEvent, ptpc_recv_sync_msg, SyncType
  <2>2. QED
    BY <1>1, <2>1, Zenon DEF Coherent, MeasuredCoherently, Sound, Begun, ServerTime
<1>5. QED
  BY <1>3, <1>4

(* One poll of the general socket.                                         *)
LEMMA GeneralCoherent ==
  ASSUME Types, Coherent, NEW m \in general \cup event \cup {Nothing, Failure},
         NEW sent \in {"ok", "again", "error"}, PollGeneral(m, general, sent)
  PROVE  Coherent'
<1>1. /\ UNCHANGED <<sync_read, event, general, srv, origin, time>>
      /\ pc = "general" /\ ptpc_recv_general_packet(m, time, sent)
  BY Zenon DEF PollGeneral
<1>0. pc' # "general"
  BY DEF PollGeneral
<1>2. /\ sync \in SyncType(0..MaxSync) /\ ptpc \in PtpcType(Server \cup {0})
      /\ measured \in Seq(Measurement) /\ sync_read \in 0..time /\ time \in Nat
  BY DEF Types, TypeOK
<1>3. m.type \in {"FOLLOW_UP", "DELAY_RESP"} => m \in general
  BY SMTT(60) DEF Types, Nothing, Failure
<1>4. ASSUME ptpc'.ptp_server_id = ptpc.ptp_server_id, requests' = requests, measured' = measured,
             sync'.state = "S_FOLLOW_UP" =>
               /\ sync.state = "S_FOLLOW_UP" /\ sync'.seqid = sync.seqid
               /\ sync'.t1 = sync.t1 /\ sync'.t3 = sync.t3
      PROVE  Coherent'
  BY <1>0, <1>1, <1>4, Zenon DEF Coherent, MeasuredCoherently, Sound, Begun, ServerTime
<1>5. CASE UNCHANGED <<sync, ptpc>>
  BY <1>4, <1>5, Zenon DEF PollGeneral
<1>6. CASE OtherSequence(m)
  <2>1. sync'.state = "S_INIT" /\ sync'.synced_count = sync.synced_count /\ ptpc' = ptpc
    BY <1>2, <1>6 DEF OtherSequence, ptp_sync_state_reset, SyncType
  <2>2. QED
    BY <1>4, <2>1, Zenon DEF PollGeneral
<1>7. CASE FollowUp(m, time, sent)
  <2>1. /\ m.type = "FOLLOW_UP" /\ m.seqid = sync.seqid /\ m.clockId = ptpc.ptp_server_id
        /\ sync.state = "S_SYNC" /\ ptpc' = ptpc
    BY <1>7, SMTT(60) DEF FollowUp, Expected
  <2>2. /\ Begun(ptpc.ptp_server_id, sync.seqid)
        /\ m.ts = origin[ptpc.ptp_server_id][sync.seqid]
    BY <1>3, <2>1, Zenon DEF Coherent, Sound
  <2>3. CASE sent = "error"
    <3>1. sync'.state = "S_SYNC" /\ sync'.synced_count = sync.synced_count
      BY <1>2, <1>7, <2>1, <2>3, SMTT(60) DEF FollowUp, SyncType
    <3>2. QED
      BY <1>4, <2>1, <3>1, Zenon DEF PollGeneral
  <2>4. CASE sent # "error"
    <3>1. sync' = [sync EXCEPT !.t1 = m.ts, !.t3 = time, !.state = "S_FOLLOW_UP",
                               !.timeout_timer = sync.now]
      BY <1>7, <2>4 DEF FollowUp
    <3>2. /\ sync'.t1 = m.ts /\ sync'.t3 = time /\ sync'.seqid = sync.seqid
          /\ sync'.synced_count = sync.synced_count
      BY <1>2, <3>1, SMTT(60) DEF SyncType
    <3>3. measured' = measured /\ requests' \subseteq requests \cup {sync.seqid}
      BY <3>2, Zenon DEF PollGeneral
    <3>4. sync_read <= time /\ time <= time
      BY <1>2, SMTT(60)
    <3>5. \A n \in requests' : Begun(ptpc.ptp_server_id, n)
      BY <2>2, <3>3, Zenon DEF Coherent
    <3>6. QED
      BY <1>0, <1>1, <2>1, <2>2, <3>2, <3>3, <3>4, <3>5, Zenon
           DEF Coherent, MeasuredCoherently, Sound, Begun, ServerTime
  <2>5. QED
    BY <2>3, <2>4
<1>8. CASE DelayResp(m)
  <2>1. /\ m.type = "DELAY_RESP" /\ m.seqid = sync.seqid /\ m.clockId = ptpc.ptp_server_id
        /\ sync.state = "S_FOLLOW_UP"
    BY <1>8, SMTT(60) DEF DelayResp, Expected
  <2>2. /\ Begun(ptpc.ptp_server_id, m.seqid)
        /\ origin[ptpc.ptp_server_id][m.seqid] <= m.ts /\ m.ts <= ServerTime(ptpc.ptp_server_id)
        /\ sync.t1 = origin[ptpc.ptp_server_id][m.seqid]
        /\ sync_read <= sync.t3 /\ sync.t3 <= time /\ sync.t3 <= sync.t2 /\ sync.t2 <= time
    BY <1>1, <1>3, <2>1, Zenon DEF Coherent, Sound
  <2>3. ptpc'.ptp_server_id = ptpc.ptp_server_id
    BY <1>2, <1>8 DEF DelayResp, PtpcType
  <2> DEFINE s == [sync EXCEPT !.t4 = m.ts]
  <2>4. /\ s.t1 = sync.t1 /\ s.t2 = sync.t2 /\ s.t3 = sync.t3 /\ s.t4 = m.ts /\ s.seqid = sync.seqid /\ s.state = sync.state
        /\ DOMAIN s = DOMAIN sync
    BY <1>2 DEF SyncType
  <2>5. /\ sync'.t1 = sync.t1 /\ sync'.t2 = sync.t2 /\ sync'.t3 = sync.t3 /\ sync'.t4 = m.ts /\ sync'.seqid = sync.seqid
        /\ sync'.state = sync.state
    <3>1. sync' = [s EXCEPT !.synced_count = (sync.synced_count + 1) % U8,
                            !.timeout_timer = sync.now]
      BY <1>2, <1>8, SMTT(60) DEF DelayResp, SyncType
    <3> HIDE DEF s
    <3>2. QED
      BY <1>2, <2>4, <3>1 DEF SyncType
  <2>6. requests' = requests
    BY <2>5, Zenon DEF PollGeneral
  <2> DEFINE x == [server |-> m.clockId, seqid |-> m.seqid, req |-> m.req,
                   t1 |-> sync'.t1, t2 |-> sync'.t2, t3 |-> sync'.t3, t4 |-> sync'.t4,
                   sync_read |-> sync_read]
  <2>7. /\ x.server = ptpc.ptp_server_id /\ x.seqid = m.seqid /\ x.t1 = sync.t1 /\ x.t2 = sync.t2
        /\ x.t3 = sync.t3 /\ x.t4 = m.ts /\ x.sync_read = sync_read
    BY <2>1, <2>5, Zenon
  <2>8. measured' \in {measured, Append(measured, x)}
    BY Zenon DEF PollGeneral
  <2> HIDE DEF s, x
  <2>9. ASSUME NEW k \in 1..Len(measured')
        PROVE  /\ Begun(ptpc.ptp_server_id, measured'[k].seqid)
               /\ measured'[k].server = ptpc.ptp_server_id
               /\ measured'[k].t1 = origin[ptpc.ptp_server_id][measured'[k].seqid]
               /\ measured'[k].t1 <= measured'[k].t4
               /\ measured'[k].t4 <= time + Offset[ptpc.ptp_server_id]
               /\ measured'[k].sync_read <= measured'[k].t3
               /\ measured'[k].t3 <= measured'[k].t2 /\ measured'[k].t2 <= time
    <3>1. CASE k \in 1..Len(measured)
      <4>1. measured'[k] = measured[k]
        BY <1>2, <2>8, <3>1, SMTT(60)
      <4>2. QED
        BY <3>1, <4>1, Zenon DEF Coherent, MeasuredCoherently, ServerTime
    <3>2. CASE k \notin 1..Len(measured)
      <4>1. measured'[k] = x
        BY <1>2, <2>8, <3>2
      <4>2. QED
        BY <2>2, <2>7, <4>1, Zenon DEF ServerTime
    <3>3. QED
      BY <3>1, <3>2, Zenon
  <2>10. /\ (\A k \in 1..Len(measured) : Begun(ptpc.ptp_server_id, measured[k].seqid))'
         /\ MeasuredCoherently'
    BY <1>1, <2>3, <2>9, Zenon DEF MeasuredCoherently, Begun, ServerTime
  <2>11. QED
    BY <1>0, <1>1, <2>1, <2>2, <2>3, <2>5, <2>6, <2>10, Zenon DEF Coherent, Sound, Begun, ServerTime
<1>9. QED
  BY <1>1, <1>5, <1>6, <1>7, <1>8, Zenon
     DEF ptpc_recv_general_packet, RecvFails, Ignored, NewServer

LEMMA CoherentInvariant == ~Wraps => (Spec => []Coherent)
<1> SUFFICES ASSUME ~Wraps PROVE Spec => []Coherent
  BY SMTT(60)
<1>1. Coherent /\ UNCHANGED vars => Coherent'
  BY Zenon DEF Coherent, MeasuredCoherently, Sound, Begun, ServerTime, vars, clientVars, networkVars
<1>2. Types /\ Coherent /\ [Next]_vars => Coherent'
  BY <1>1, OutsideCoherent, HeadCoherent, EventCoherent, GeneralCoherent DEF Next, Polls
<1>3. QED
  BY <1>2, InitCoherent, TypesInvariant, PTL DEF Spec

-----------------------------------------------------------------------------
(* Before the first measurement there is none to compare with.             *)
Best ==
  /\ BestMeasurementKept
  /\ Len(measured) = 0 => ptpc.mean_path_delay = 0

LEMMA InitBest == Init => Best
BY DEF Init, Best, BestMeasurementKept, PtpcContext

(* The delay depends on the four times alone, and is a number.             *)
LEMMA DelayOfTimes ==
  ASSUME NEW x, NEW y, x.t1 = y.t1, x.t2 = y.t2, x.t3 = y.t3, x.t4 = y.t4,
         x.t1 \in Int, x.t2 \in Int, x.t3 \in Int, x.t4 \in Int
  PROVE  /\ ptp_mean_path_delay(x) = ptp_mean_path_delay(y)
         /\ ptp_mean_path_delay(x) \in Int
         /\ \A d : ptp_offset(d, x) = ptp_offset(d, y)
BY DEF ptp_mean_path_delay, Halved, ptp_offset

(* A Delay_Resp is counted: synced_count is never the same afterwards.     *)
LEMMA Counted ==
  ASSUME Types, NEW m \in general \cup event \cup {Nothing, Failure}, NEW sent,
         PollGeneral(m, general, sent), DelayResp(m)
  PROVE  \E x \in Measurement, d \in Int :
           /\ measured' = Append(measured, x)
           /\ d = ptp_mean_path_delay(x)
           /\ IF ptpc.mean_path_delay = 0 \/ d % U64 <= ptpc.mean_path_delay % U64
              THEN ptpc'.mean_path_delay = d /\ ptpc'.ptp_offset = ptp_offset(d, x)
              ELSE ptpc' = ptpc
<1>1. /\ sync \in SyncType(0..MaxSync) /\ ptpc \in PtpcType(Server \cup {0}) /\ sync_read \in Int
      /\ sync.synced_count \in 0 .. U8 - 1 /\ sync.now \in Int
  BY DEF Types, TypeOK, SyncType
<1>2. /\ m.ts \in Int /\ m.seqid \in 0..MaxSync /\ m.req \in {"self", "other", "all"}
      /\ m.clockId \in Server
  <2>1. m \in MessageType
    BY DEF DelayResp, Expected, InDomain, Arrived, Types, TypeOK, Nothing, Failure
  <2>2. QED
    BY <2>1 DEF MessageType
<1> DEFINE s == [sync EXCEPT !.t4 = m.ts]
           d == ptp_mean_path_delay(s)
           n == (sync.synced_count + 1) % U8
           x == [server |-> m.clockId, seqid |-> m.seqid, req |-> m.req,
                 t1 |-> sync'.t1, t2 |-> sync'.t2, t3 |-> sync'.t3, t4 |-> sync'.t4,
                 sync_read |-> sync_read]
<1>3. /\ s \in SyncType(0..MaxSync) /\ s.synced_count = sync.synced_count
  BY <1>1, <1>2 DEF SyncType
<1>4. /\ sync' = [s EXCEPT !.synced_count = n, !.timeout_timer = sync.now]
      /\ ptpc' = IF ptpc.mean_path_delay = 0 \/ d % U64 <= ptpc.mean_path_delay % U64
                 THEN [ptpc EXCEPT !.mean_path_delay = d, !.ptp_offset = ptp_offset(d, s)]
                 ELSE ptpc
  BY <1>3 DEF DelayResp
<1>5. n # sync.synced_count
  <2> DEFINE c == sync.synced_count
  <2>1. c \in 0 .. U8 - 1
    BY <1>1
  <2> HIDE DEF c
  <2>2. (c + 1) % U8 = IF c + 1 = U8 THEN 0 ELSE c + 1
    BY <2>1, WidthAssumption
  <2>3. (c + 1) % U8 # c
    BY <2>1, <2>2, WidthAssumption
  <2>4. QED
    BY <2>3 DEF c
<1> HIDE DEF n, s
<1>6. /\ sync'.synced_count = n /\ sync'.t1 = s.t1 /\ sync'.t2 = s.t2
      /\ sync'.t3 = s.t3 /\ sync'.t4 = s.t4
  BY <1>3, <1>4 DEF SyncType
<1>7. /\ s.t1 \in Int /\ s.t2 \in Int /\ s.t3 \in Int /\ s.t4 \in Int
  BY <1>3, SMTT(60) DEF SyncType
<1>8. x \in Measurement
  BY <1>1, <1>2, <1>6, <1>7, Zenon DEF Measurement
<1>9. measured' = Append(measured, x)
  BY <1>5, <1>6, Zenon DEF PollGeneral
<1>10. x.t1 = s.t1 /\ x.t2 = s.t2 /\ x.t3 = s.t3 /\ x.t4 = s.t4
  BY <1>6, Zenon
<1> HIDE DEF x
<1>11. d = ptp_mean_path_delay(x) /\ d \in Int /\ ptp_offset(d, s) = ptp_offset(d, x)
  BY <1>7, <1>10 DEF ptp_mean_path_delay, Halved, ptp_offset
<1> HIDE DEF d
<1>12. IF ptpc.mean_path_delay = 0 \/ d % U64 <= ptpc.mean_path_delay % U64
       THEN ptpc'.mean_path_delay = d /\ ptpc'.ptp_offset = ptp_offset(d, x)
       ELSE ptpc' = ptpc
  BY <1>1, <1>4, <1>11 DEF PtpcType, d
<1>13. QED
  BY <1>8, <1>9, <1>11, <1>12, Zenon

(* A measurement that counts replaces the best one exactly when it is      *)
(* better, or when there is none.                                          *)
LEMMA MeasurementBest ==
  ASSUME Types, Best, NEW m \in general \cup event \cup {Nothing, Failure}, NEW sent,
         PollGeneral(m, general, sent), DelayResp(m)
  PROVE  Best'
<1>1. PICK x \in Measurement, d \in Int :
        /\ measured' = Append(measured, x)
        /\ d = ptp_mean_path_delay(x)
        /\ IF ptpc.mean_path_delay = 0 \/ d % U64 <= ptpc.mean_path_delay % U64
           THEN ptpc'.mean_path_delay = d /\ ptpc'.ptp_offset = ptp_offset(d, x)
           ELSE ptpc' = ptpc
  BY Counted
<1>0. PICK l \in Nat : l = Len(measured)
  BY DEF Types
<1> DEFINE old == ptpc.mean_path_delay
<1>2. /\ measured \in Seq(Measurement) /\ l = Len(measured) /\ Len(measured') = l + 1
      /\ measured'[l + 1] = x /\ \A k \in 1..l : measured'[k] = measured[k]
      /\ measured' # <<>> /\ old \in Int
  <2>1. measured \in Seq(Measurement) /\ measured' = Append(measured, x) /\ l = Len(measured)
    BY <1>1, <1>0, Zenon DEF Types
  <2>2. old \in Int
    BY Zenon DEF Types, TypeOK, PtpcType
  <2>3. Len(measured') = l + 1 /\ measured'[l + 1] = x
    BY <2>1
  <2>4. \A k \in 1..l : measured'[k] = measured[k]
    BY <2>1
  <2>5. measured' # <<>>
    BY <2>1
  <2>6. QED
    BY <2>1, <2>2, <2>3, <2>4, <2>5
<1>3. Delay(l + 1)' = d /\ \A k \in 1..l : Delay(k)' = Delay(k)
  BY <1>1, <1>2 DEF Delay
<1>4. \A k \in 1..l : Delay(k) \in Int
  <2>1. TAKE k \in 1..l
  <2>2. measured[k] \in Measurement
    BY <1>2
  <2>3. measured[k].t1 \in Int /\ measured[k].t2 \in Int /\ measured[k].t3 \in Int /\ measured[k].t4 \in Int
    BY <2>2, Zenon DEF Measurement
  <2>4. QED
    BY <2>3, DelayOfTimes, Zenon DEF Delay
<1>5. SUFFICES ASSUME \A k \in 1 .. l + 1 : Delay(k)' # 0
               PROVE  \E k \in 1 .. l + 1 :
                        /\ ptpc'.mean_path_delay = Delay(k)'
                        /\ ptpc'.ptp_offset = ptp_offset(Delay(k), measured[k])'
                        /\ \A j \in 1 .. l + 1 : Delay(k)' % U64 <= Delay(j)' % U64
  BY <1>2 DEF Best, BestMeasurementKept
<1>6. \A a, b \in Int : a % U64 \in Int /\ (a % U64 <= b % U64 \/ b % U64 <= a % U64)
  BY WidthAssumption
<1>7. CASE l = 0
  <2>1. old = 0
    BY <1>2, <1>7 DEF Best
  <2>2. ptpc'.mean_path_delay = d /\ ptpc'.ptp_offset = ptp_offset(d, x)
    BY <1>1, <2>1
  <2>3. \A j \in 1 .. l + 1 : j = l + 1
    BY <1>7
  <2>4. QED
    BY <1>2, <1>3, <1>6, <2>2, <2>3 DEF Delay, ptp_offset
<1>8. CASE l # 0
  <2>1. \A k \in 1..l : Delay(k) # 0
    BY <1>2, <1>3, <1>5
  <2>2. PICK b \in 1..l : /\ old = Delay(b)
                          /\ ptpc.ptp_offset = ptp_offset(Delay(b), measured[b])
                          /\ \A j \in 1..l : Delay(b) % U64 <= Delay(j) % U64
    BY <1>2, <1>8, <2>1 DEF Best, BestMeasurementKept
  <2>3. CASE d % U64 <= old % U64
    <3>1. ptpc'.mean_path_delay = d /\ ptpc'.ptp_offset = ptp_offset(d, x)
      BY <1>1, <2>3
    <3>2. \A j \in 1 .. l + 1 : d % U64 <= Delay(j)' % U64
      <4>1. TAKE j \in 1 .. l + 1
      <4>2. CASE j = l + 1
        BY <1>3, <1>6, <4>2
      <4>3. CASE j \in 1..l
        <5>1. Delay(j)' = Delay(j) /\ Delay(j) \in Int /\ old % U64 <= Delay(j) % U64
          BY <1>3, <1>4, <2>2, <4>3, Zenon
        <5>2. d % U64 \in Int /\ old % U64 \in Int /\ Delay(j) % U64 \in Int
          BY <1>2, <1>6, <5>1, Zenon
        <5>3. QED
          BY <2>3, <5>1, <5>2
      <4>4. QED
        BY <1>2, <4>2, <4>3
    <3>3. QED
      BY <1>2, <1>3, <3>1, <3>2
  <2>4. CASE ~(d % U64 <= old % U64)
    <3>1. ptpc' = ptpc
      BY <1>1, <2>1, <2>2, <2>4, Zenon
    <3>2. old % U64 <= d % U64
      BY <1>2, <1>6, <2>4, Zenon
    <3>3. \A j \in 1 .. l + 1 : Delay(b)' % U64 <= Delay(j)' % U64
      BY <1>2, <1>3, <2>2, <3>2
    <3>4. ptp_offset(Delay(b), measured[b])' = ptp_offset(Delay(b), measured[b]) /\ b \in 1 .. l + 1
      BY <1>2, <1>3 DEF ptp_offset
    <3>5. QED
      BY <1>3, <2>2, <3>1, <3>3, <3>4, Zenon
  <2>5. QED
    BY <2>3, <2>4, Zenon
<1>9. QED
  BY <1>7, <1>8, Zenon

LEMMA BestInvariant == Spec => []Best
<1>1. ASSUME measured' = measured, ptpc'.mean_path_delay = ptpc.mean_path_delay,
             ptpc'.ptp_offset = ptpc.ptp_offset, Best
      PROVE  Best'
  BY <1>1, Zenon DEF Best, BestMeasurementKept, Delay
<1>2. ASSUME Types, Best, NEW m \in general \cup event \cup {Nothing, Failure},
             NEW sent \in {"ok", "again", "error"}, PollGeneral(m, general, sent)
      PROVE  Best'
  <2>1. CASE DelayResp(m)
    BY <1>2, <2>1, MeasurementBest
  <2>2. CASE ~DelayResp(m)
    <3>1. sync \in SyncType(0..MaxSync)
      BY <1>2, Zenon DEF Types, TypeOK
    <3>2. sync'.synced_count = sync.synced_count /\ ptpc' = ptpc
      <4>1. CASE OtherSequence(m)
        BY <3>1, <4>1 DEF OtherSequence, ptp_sync_state_reset, SyncType
      <4>2. CASE FollowUp(m, time, sent)
        BY <3>1, <4>2 DEF FollowUp, SyncType
      <4>3. CASE UNCHANGED <<sync, ptpc>>
        BY <4>3, SMTT(60)
      <4>4. QED
        BY <1>2, <2>2, <4>1, <4>2, <4>3, Zenon
           DEF PollGeneral, ptpc_recv_general_packet, RecvFails, Ignored, NewServer
    <3>3. measured' = measured
      BY <1>2, <3>2, Zenon DEF PollGeneral
    <3>4. QED
      BY <1>1, <1>2, <3>2, <3>3, Zenon
  <2>3. QED
    BY <2>1, <2>2
<1>3. ASSUME Types, Best, NEW m, PollAnnounce(m, general) PROVE Best'
  <2>1. measured' = measured /\ ptpc' \in {ptpc, [ptpc EXCEPT !.ptp_server_id = m.clockId]}
    BY <1>3 DEF PollAnnounce, ptpc_recv_announce_msg
  <2>2. ptpc \in PtpcType(Server \cup {0})
    BY <1>3, Zenon DEF Types, TypeOK
  <2>3. ptpc'.mean_path_delay = ptpc.mean_path_delay /\ ptpc'.ptp_offset = ptpc.ptp_offset
    BY <2>1, <2>2 DEF PtpcType
  <2>4. QED
    BY <1>1, <1>3, <2>1, <2>3
<1>4. ASSUME Types, Best, [Next]_vars,
             ~\E m \in general \cup {Nothing} : PollAnnounce(m, general),
             ~\E m \in general \cup event \cup {Nothing, Failure},
                 sent \in {"ok", "again", "error"} :
                PollGeneral(m, general, sent)
      PROVE  Best'
  <2>1. measured' = measured /\ ptpc' = ptpc
    BY <1>4, Zenon
       DEF Next, Tick, Servers, SendAnnounce, SendSync, SendFollowUp, RespondOther, Respond,
           LoopHead, Polls, PollEvent, ptpc_recv_sync_msg, vars, clientVars, networkVars
  <2>2. QED
    BY <1>1, <1>4, <2>1, SMTT(60)
<1>5. Types /\ Best /\ [Next]_vars => Best'
  BY <1>2, <1>3, <1>4
<1>6. QED
  BY <1>5, InitBest, TypesInvariant, PTL DEF Spec

-----------------------------------------------------------------------------
(* Contexts, messages and measurements keep their types, and synced_count  *)
(* never passes the target of ptpc_sync_loop.                              *)
THEOREM SessionType == Spec => []TypeOK
<1>1. Types => TypeOK
  BY Zenon DEF Types
<1>2. QED
  BY <1>1, TypesInvariant, PTL

(* As long as no server uses a sequence number twice, t1 and t4 of every   *)
(* measurement ptpc_recv_general_packet counts are readings of the         *)
(* selected server's clock for the same sequence number, t1 that of its    *)
(* Sync and t4 a later one, and t3 and t2 readings of the client's clock,  *)
(* in this order, after a Sync of that number was read: for any number of  *)
(* servers with clocks of their own and overlapping numbers, over any      *)
(* loss, repetition and reordering of messages.                            *)
THEOREM MeasurementsAreCoherent == ~Wraps => (Spec => []MeasuredCoherently)
<1>1. Coherent => MeasuredCoherently
  BY Zenon DEF Coherent
<1>2. QED
  BY <1>1, CoherentInvariant, PTL

(* Under the same condition no delay is negative: t2, set after the        *)
(* Delay_Req, is not before t3, and t4 is not before t1.                   *)
THEOREM DelaysAreNotNegative == ~Wraps => (Spec => []DelaysNotNegative)
<1>1. Types /\ MeasuredCoherently => DelaysNotNegative
  <2> SUFFICES ASSUME Types, MeasuredCoherently, NEW k \in 1..Len(measured),
                      NEW x, x = measured[k]
               PROVE  ptp_mean_path_delay(x) >= 0
    BY Zenon DEF DelaysNotNegative, Delay
  <2>1. x.t1 <= x.t4 /\ x.t3 <= x.t2
    BY Zenon DEF MeasuredCoherently
  <2>2. x \in Measurement
    BY DEF Types
  <2>3. x.t1 \in Int /\ x.t2 \in Int /\ x.t3 \in Int /\ x.t4 \in Int
    BY <2>2, Zenon DEF Measurement
  <2> QED BY <2>1, <2>3, SMTT(60) DEF ptp_mean_path_delay, Halved
<1>2. QED
  BY <1>1, TypesInvariant, MeasurementsAreCoherent, PTL

(* Delay and offset of the context are always those of the measurement     *)
(* with the smallest delay, whichever width its comparison has.            *)
THEOREM BestIsKept == Spec => []BestMeasurementKept
<1>1. Best => BestMeasurementKept
  BY DEF Best
<1>2. QED
  BY <1>1, BestInvariant, PTL
=============================================================================
