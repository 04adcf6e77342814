---------------------------- MODULE DeviceProofs ----------------------------
(***************************************************************************)
(* Device for any number of slots (the code has 512).  Creation and        *)
(* destruction are lists of calls of which main has done a part, so the    *)
(* inductive invariant is about what is left to do: whatever is not there  *)
(* yet is still going to be created, and whatever is still there is going  *)
(* to be given back, once and in the right order.                          *)
(***************************************************************************)
EXTENDS Device, TLAPS

Call == Step \X (Socket \cup {"device", "slots"})

Closing == {"close", "ao_release"}

(* What is left of aoip_create_context. *)
Creating(q) ==
  /\ \A i \in 1..Len(q) :
       /\ q[i][1] \in {"socket", "bind", "option", "join", "ao_init", "malloc", "calloc"}
       /\ q[i][1] \in {"malloc", "calloc"} <=> Len(q) - i <= SlotNum
       /\ q[i][1] = "socket" => q[i][2] \in Socket
       /\ q[i][1] = "ao_init" => q[i][2] = "device"
       /\ q[i][1] = "join" =>
            /\ q[i][2] \in Joined
            /\ q[i][2] \in open \/ \E j \in 1 .. i - 1 : q[j] = <<"socket", q[i][2]>>
       /\ q[i][1] = "bind" =>
            /\ q[i][2] \notin member
            /\ \A j \in 1 .. i - 1 : q[j] # <<"join", q[i][2]>>
  /\ \A r \in Socket \ open : \E i \in 1..Len(q) : q[i] = <<"socket", r>>
  /\ "device" \in open \/ \E i \in 1..Len(q) : q[i] = <<"ao_init", "device">>
  /\ \A r \in Joined \ member : \E i \in 1..Len(q) : q[i] = <<"join", r>>
  /\ slots = IF Len(q) > SlotNum THEN -1 ELSE SlotNum - Len(q)

(* What is left of aoip_context_destroy. *)
Destroying(q) ==
  /\ \A i \in 1..Len(q) :
       /\ q[i][1] \in {"drop", "free", "free_array"} \cup Closing
       /\ q[i][1] = "free" <=> Len(q) - i \in 1..SlotNum
       /\ q[i][1] = "free_array" <=> i = Len(q)
       /\ q[i][1] = "ao_release" => q[i][2] = "device"
       /\ q[i][1] \in Closing =>
            /\ q[i][2] \in open
            /\ \A j \in 1 .. i - 1 : q[j][1] \in Closing => q[j][2] # q[i][2]
       /\ q[i][1] = "drop" =>
            /\ q[i][2] \in member
            /\ \A j \in 1 .. i - 1 : q[j][2] # q[i][2]
  /\ \A r \in open : \E i \in 1..Len(q) : q[i][1] \in Closing /\ q[i][2] = r
  /\ slots = IF Len(q) > SlotNum THEN SlotNum ELSE Len(q) - 1

Whole == open = Socket \cup {"device"} /\ member = Joined /\ slots = SlotNum

Running == {"created", "start_audio", "wait", "stop_net", "stop_audio", "join_net",
            "join_audio"}

(* Which main goes with which threads, and the device with its thread. *)
Lifecycle ==
  /\ main \in {"create", "created"} => net = "none"
  /\ main \in {"create", "created", "start_audio"} => audio = "none"
  /\ main \in {"join_audio", "destroy"} => net = "ended"
  /\ main = "destroy" => audio = "ended"
  /\ main = "create" /\ "device" \in open => device = "ready"
  /\ main \in {"created", "start_audio"} => device = "ready"
  /\ audio = "open" => device = "ready"
  /\ audio \in {"loop", "close"} => device = "open"
  /\ audio = "ended" /\ ~ao_failed => device \in {"closed", "released"}

Inv ==
  /\ TypeOK
  /\ member \subseteq Joined
  /\ Lifecycle
  /\ main = "create" => todo # <<>> /\ Creating(todo)
  /\ main \in Running => Whole
  /\ main = "destroy" => todo # <<>> /\ Destroying(todo)
  /\ NothingLeft

-----------------------------------------------------------------------------
LEMMA TailCalls ==
  ASSUME NEW q \in Seq(Call), q # <<>>
  PROVE  /\ Len(q) \in Nat \ {0}
         /\ Tail(q) \in Seq(Call)
         /\ Len(Tail(q)) = Len(q) - 1
         /\ \A i \in 1 .. Len(q) - 1 : Tail(q)[i] = q[i + 1]
         /\ \A i \in 1 .. Len(q) : q[i] \in Call
OBVIOUS

LEMMA ConcatCalls ==
  ASSUME NEW q \in Seq(Call), NEW p \in Seq(Call)
  PROVE  /\ q \o p \in Seq(Call)
         /\ Len(q \o p) = Len(q) + Len(p)
         /\ \A i \in 1..Len(q) : (q \o p)[i] = q[i]
         /\ \A i \in Len(q) + 1 .. Len(q) + Len(p) : (q \o p)[i] = p[i - Len(q)]
OBVIOUS

(* network_init, call by call. *)
LEMMA NetworkInit ==
  /\ network_init \in Seq(Call)
  /\ Len(network_init) = IF Receiving THEN 17 ELSE 15
  /\ network_init[1] = <<"socket", "event">>
  /\ network_init[2] = <<"bind", "event">>
  /\ network_init[3] = <<"option", "event">>
  /\ network_init[4] = <<"option", "event">>
  /\ network_init[5] = <<"join", "event">>
  /\ network_init[6] = <<"socket", "general">>
  /\ network_init[7] = <<"bind", "general">>
  /\ network_init[8] = <<"option", "general">>
  /\ network_init[9] = <<"join", "general">>
  /\ network_init[10] = <<"socket", "sap">>
  /\ network_init[11] = <<"option", "sap">>
  /\ network_init[12] = <<"socket", "rtp">>
  /\ network_init[13] = <<"option", "rtp">>
  /\ network_init[14] = <<"option", "rtp">>
  /\ network_init[15] = <<"option", "rtp">>
  /\ Receiving => network_init[16] = <<"bind", "rtp">> /\ network_init[17] = <<"join", "rtp">>
<1>1. ptpc_create_context \in Seq(Call)
  BY DEF ptpc_create_context, Call, Step, Socket
<1>2. sap_create_context \in Seq(Call)
  BY DEF sap_create_context, Call, Step, Socket
<1>3. rtp_create_context \in Seq(Call)
  <2>1. << <<"socket", "rtp">>, <<"option", "rtp">>, <<"option", "rtp">>,
           <<"option", "rtp">> >> \in Seq(Call)
    BY DEF Call, Step, Socket
  <2>2. << <<"bind", "rtp">>, <<"join", "rtp">> >> \in Seq(Call)
    BY DEF Call, Step, Socket
  <2> QED BY <2>1, <2>2 DEF rtp_create_context
<1>4. network_init \in Seq(Call)
  BY <1>1, <1>2, <1>3 DEF network_init
<1>5. CASE Receiving
  BY <1>4, <1>5 DEF network_init, ptpc_create_context, sap_create_context, rtp_create_context
<1>6. CASE ~Receiving
  BY <1>4, <1>6 DEF network_init, ptpc_create_context, sap_create_context, rtp_create_context
<1> QED BY <1>5, <1>6, Zenon

(* Where network_init binds and joins. *)
LEMMA NetworkCalls ==
  ASSUME NEW i \in 1..Len(network_init)
  PROVE  /\ network_init[i][1] \in {"socket", "bind", "option", "join"}
         /\ network_init[i][2] \in Socket
         /\ network_init[i][1] = "join" =>
              \/ i = 5 /\ network_init[i][2] = "event"
              \/ i = 9 /\ network_init[i][2] = "general"
              \/ i = 17 /\ network_init[i][2] = "rtp" /\ Receiving
         /\ network_init[i][1] = "bind" =>
              \/ i = 2 /\ network_init[i][2] = "event"
              \/ i = 7 /\ network_init[i][2] = "general"
              \/ i = 16 /\ network_init[i][2] = "rtp"
<1>1. CASE i = 16 \/ i = 17
  BY <1>1, NetworkInit, SMTT(60) DEF Socket
<1>2. CASE i \in 1..15
  <2>1. CASE i = 1
    BY <2>1, NetworkInit DEF Socket
  <2>2. CASE i = 2
    BY <2>2, NetworkInit DEF Socket
  <2>3. CASE i = 3
    BY <2>3, NetworkInit DEF Socket
  <2>4. CASE i = 4
    BY <2>4, NetworkInit DEF Socket
  <2>5. CASE i = 5
    BY <2>5, NetworkInit DEF Socket
  <2>6. CASE i = 6
    BY <2>6, NetworkInit DEF Socket
  <2>7. CASE i = 7
    BY <2>7, NetworkInit DEF Socket
  <2>8. CASE i = 8
    BY <2>8, NetworkInit DEF Socket
  <2>9. CASE i = 9
    BY <2>9, NetworkInit DEF Socket
  <2>10. CASE i = 10
    BY <2>10, NetworkInit DEF Socket
  <2>11. CASE i = 11
    BY <2>11, NetworkInit DEF Socket
  <2>12. CASE i = 12
    BY <2>12, NetworkInit DEF Socket
  <2>13. CASE i = 13
    BY <2>13, NetworkInit DEF Socket
  <2>14. CASE i = 14
    BY <2>14, NetworkInit DEF Socket
  <2>15. CASE i = 15
    BY <2>15, NetworkInit DEF Socket
  <2> QED BY <1>2, <2>1, <2>2, <2>3, <2>4, <2>5, <2>6, <2>7, <2>8, <2>9, <2>10, <2>11, <2>12,
         <2>13, <2>14, <2>15
<1>3. i \in 1..15 \/ i = 16 \/ i = 17
  BY NetworkInit
<1> QED BY <1>1, <1>2, <1>3

LEMMA QueueInit ==
  /\ aoip_queue_init \in Seq(Call)
  /\ Len(aoip_queue_init) = SlotNum + 1
  /\ \A i \in 1 .. SlotNum + 1 : aoip_queue_init[i] \in {"malloc", "calloc"} \X {"slots"}
<1>1. << <<"malloc", "slots">> >> \in Seq(Call)
  BY DEF Call, Step
<1>2. [i \in 1..SlotNum |-> <<"calloc", "slots">>] \in Seq(Call)
  BY DeviceAssumption DEF Call, Step
<1> QED BY <1>1, <1>2, DeviceAssumption DEF aoip_queue_init

LEMMA CreateCalls ==
  LET c == aoip_create_context
      n == Len(network_init)
  IN  /\ c \in Seq(Call)
      /\ Len(c) = n + SlotNum + 2
      /\ \A i \in 1..n : c[i] = network_init[i]
      /\ c[n + 1] = <<"ao_init", "device">>
      /\ \A i \in n + 2 .. n + SlotNum + 2 : c[i] \in {"malloc", "calloc"} \X {"slots"}
<1> DEFINE a == << <<"ao_init", "device">> >>
           b == network_init \o a
           n == Len(network_init)
<1>1. a \in Seq(Call) /\ Len(a) = 1 /\ a[1] = <<"ao_init", "device">>
  BY DEF Call, Step
<1>2. network_init \in Seq(Call) /\ n \in Nat
  BY NetworkInit
<1>3. /\ b \in Seq(Call) /\ Len(b) = n + 1
      /\ \A i \in 1..n : b[i] = network_init[i]
      /\ b[n + 1] = <<"ao_init", "device">>
  <2> HIDE DEF a
  <2> QED BY <1>1, <1>2, ConcatCalls
<1>4. aoip_create_context = b \o aoip_queue_init
  BY DEF aoip_create_context
<1> HIDE DEF b, n
<1>5. /\ b \o aoip_queue_init \in Seq(Call)
      /\ Len(b \o aoip_queue_init) = n + 1 + SlotNum + 1
      /\ \A i \in 1 .. n + 1 : (b \o aoip_queue_init)[i] = b[i]
      /\ \A i \in n + 2 .. n + SlotNum + 2 :
           (b \o aoip_queue_init)[i] = aoip_queue_init[i - (n + 1)]
  <2>1. /\ b \o aoip_queue_init \in Seq(Call)
        /\ Len(b \o aoip_queue_init) = Len(b) + Len(aoip_queue_init)
        /\ \A i \in 1..Len(b) : (b \o aoip_queue_init)[i] = b[i]
        /\ \A i \in Len(b) + 1 .. Len(b) + Len(aoip_queue_init) :
             (b \o aoip_queue_init)[i] = aoip_queue_init[i - Len(b)]
    BY <1>3, QueueInit, ConcatCalls, Zenon
  <2>2. Len(b) = n + 1 /\ Len(aoip_queue_init) = SlotNum + 1
    BY <1>3, QueueInit
  <2>3. /\ Len(b) + 1 = n + 2
        /\ Len(b) + Len(aoip_queue_init) = n + 1 + SlotNum + 1
        /\ Len(b) + Len(aoip_queue_init) = n + SlotNum + 2
    BY <1>2, <2>2, DeviceAssumption
  <2> QED BY <2>1, <2>2, <2>3, Zenon
<1>6. \A i \in n + 2 .. n + SlotNum + 2 :
        (b \o aoip_queue_init)[i] \in {"malloc", "calloc"} \X {"slots"}
  BY <1>2, <1>5, QueueInit, DeviceAssumption
<1> QED BY <1>2, <1>3, <1>4, <1>5, <1>6, DeviceAssumption DEF n

LEMMA InitInv == Init => Inv
<1> SUFFICES ASSUME Init PROVE Inv
  OBVIOUS
<1> DEFINE c == aoip_create_context
           n == Len(network_init)
<1>1. /\ c \in Seq(Call) /\ Len(c) = n + SlotNum + 2
      /\ \A i \in 1..n : c[i] = network_init[i]
      /\ c[n + 1] = <<"ao_init", "device">>
      /\ \A i \in n + 2 .. n + SlotNum + 2 : c[i] \in {"malloc", "calloc"} \X {"slots"}
  BY CreateCalls
<1>2. n = IF Receiving THEN 17 ELSE 15
  BY NetworkInit
<1> HIDE DEF c, n
<1>3. TypeOK
  <2>1. todo \in Seq(Call)
    BY <1>1 DEF Init, c
  <2>2. {caught_signal, network_stop_flag, audio_stop_flag, ao_failed} \subseteq BOOLEAN
    BY Zenon DEF Init
  <2>3. slots \in -1 .. SlotNum
    BY DeviceAssumption DEF Init
  <2> QED BY <2>1, <2>2, <2>3 DEF Init, TypeOK, Call
<1>4. \A i \in 1..Len(c) : i \in 1..n \/ i = n + 1 \/ i \in n + 2 .. n + SlotNum + 2
  BY <1>1, <1>2, DeviceAssumption
<1>5. Creating(c)
  <2>1. ASSUME NEW i \in 1..n
        PROVE  /\ c[i] = network_init[i]
               /\ ~(Len(c) - i <= SlotNum)
               /\ \A j \in 1 .. i - 1 : c[j] = network_init[j]
    BY <1>1, <1>2, <2>1, DeviceAssumption
  <2>2. ASSUME NEW i \in 1..n
        PROVE  /\ c[i][1] \in {"socket", "bind", "option", "join"}
               /\ c[i][1] = "socket" => c[i][2] \in Socket
               /\ c[i][1] = "join" =>
                    /\ c[i][2] \in Joined
                    /\ \E j \in 1 .. i - 1 : c[j] = <<"socket", c[i][2]>>
               /\ c[i][1] = "bind" =>
                    \A j \in 1 .. i - 1 : c[j] # <<"join", c[i][2]>>
    <3>1. /\ c[i] = network_init[i]
          /\ \A j \in 1 .. i - 1 : c[j] = network_init[j]
          /\ 1 .. i - 1 \subseteq 1..n
      BY <1>2, <2>1
    <3>2. /\ i \in 1..Len(network_init)
          /\ network_init[i][1] \in {"socket", "bind", "option", "join"}
          /\ network_init[i][2] \in Socket
          /\ network_init[i][1] = "join" => network_init[i][2] \in Joined
      BY NetworkCalls DEF n, Joined
    <3>3. ASSUME network_init[i][1] = "join"
          PROVE  \E j \in 1 .. i - 1 : network_init[j] = <<"socket", network_init[i][2]>>
      <4>1. CASE i = 5
        <5>1. network_init[i][2] = "event" /\ network_init[1] = <<"socket", "event">>
          BY <4>1, NetworkInit
        <5> QED BY <4>1, <5>1
      <4>2. CASE i = 9
        <5>1. network_init[i][2] = "general" /\ network_init[6] = <<"socket", "general">>
          BY <4>2, NetworkInit
        <5> QED BY <4>2, <5>1
      <4>3. CASE i = 17
        <5>1. network_init[i][2] = "rtp" /\ network_init[12] = <<"socket", "rtp">>
          BY <3>2, <3>3, <4>3, NetworkCalls, NetworkInit
        <5> QED BY <4>3, <5>1
      <4> QED BY <3>2, <3>3, <4>1, <4>2, <4>3, NetworkCalls
    <3>4. ASSUME network_init[i][1] = "bind", NEW j \in 1 .. i - 1,
                 network_init[j] = <<"join", network_init[i][2]>>
          PROVE  FALSE
      <4>1. j \in 1..Len(network_init) /\ j < i
        BY <3>1, <3>4 DEF n
      <4>2. network_init[j][1] = "join" /\ network_init[j][2] = network_init[i][2]
        BY <3>4
      <4> QED BY <3>2, <3>4, <4>1, <4>2, NetworkCalls
    <3> QED BY <3>1, <3>2, <3>3, <3>4
  <2>3. \A r \in Socket : \E i \in 1..Len(c) : c[i] = <<"socket", r>>
    <3>1. {1, 6, 10, 12} \subseteq 1..n /\ 1..n \subseteq 1..Len(c)
      BY <1>1, <1>2, DeviceAssumption
    <3>2. /\ c[1] = <<"socket", "event">> /\ c[6] = <<"socket", "general">>
          /\ c[10] = <<"socket", "sap">> /\ c[12] = <<"socket", "rtp">>
      BY <1>1, <3>1, NetworkInit, Zenon
    <3> QED BY <3>1, <3>2, Zenon DEF Socket
  <2>4. \A r \in Joined : \E i \in 1..Len(c) : c[i] = <<"join", r>>
    <3>1. {5, 9} \subseteq 1..n /\ 1..n \subseteq 1..Len(c) /\ (Receiving => 17 \in 1..n)
      BY <1>1, <1>2, DeviceAssumption
    <3>2. /\ c[5] = <<"join", "event">> /\ c[9] = <<"join", "general">>
          /\ Receiving => c[17] = <<"join", "rtp">>
      BY <1>1, <3>1, NetworkInit, Zenon
    <3> QED BY <3>1, <3>2 DEF Joined
  <2>5. n + 1 \in 1..Len(c) /\ ~(Len(c) - (n + 1) <= SlotNum) /\ Len(c) > SlotNum
    BY <1>1, <1>2, DeviceAssumption
  <2>6. \A i \in n + 2 .. n + SlotNum + 2 : Len(c) - i <= SlotNum
    BY <1>1, <1>2, DeviceAssumption
  <2>7. open = {} /\ member = {} /\ slots = -1
    BY DEF Init
  <2>8. ASSUME NEW i \in 1..Len(c)
        PROVE  /\ c[i][1] \in {"socket", "bind", "option", "join", "ao_init", "malloc", "calloc"}
               /\ c[i][1] \in {"malloc", "calloc"} <=> Len(c) - i <= SlotNum
               /\ c[i][1] = "socket" => c[i][2] \in Socket
               /\ c[i][1] = "ao_init" => c[i][2] = "device"
               /\ c[i][1] = "join" =>
                    /\ c[i][2] \in Joined
                    /\ \E j \in 1 .. i - 1 : c[j] = <<"socket", c[i][2]>>
               /\ c[i][1] = "bind" =>
                    \A j \in 1 .. i - 1 : c[j] # <<"join", c[i][2]>>
    <3>1. CASE i \in 1..n
      BY <2>1, <2>2, <3>1, Zenon
    <3>2. CASE i = n + 1
      BY <1>1, <2>5, <3>2
    <3>3. CASE i \in n + 2 .. n + SlotNum + 2
      BY <1>1, <2>6, <3>3
    <3> QED BY <1>4, <3>1, <3>2, <3>3, Zenon
  <2> QED BY <1>1, <2>3, <2>4, <2>5, <2>7, <2>8, Zenon DEF Creating
<1>6. c # <<>>
  BY <1>1, <1>2, DeviceAssumption
<1>7. member \subseteq Joined /\ Lifecycle
  BY DEF Init, Lifecycle
<1> QED BY <1>3, <1>5, <1>6, <1>7 DEF Init, Inv, Running, NothingLeft, c

-----------------------------------------------------------------------------
(* The calls of aoip_context_destroy before the queue's. *)
Release == << <<"ao_release", "device">> >> \o network_device_release

LEMMA ReleaseCalls ==
  /\ Release \in Seq(Call)
  /\ Release[1] = <<"ao_release", "device">>
  /\ Release[2] = <<"drop", "general">>
  /\ Release[3] = <<"close", "general">>
  /\ Release[4] = <<"drop", "event">>
  /\ Release[5] = <<"close", "event">>
  /\ Release[6] = <<"close", "sap">>
  /\ \/ Receiving /\ Len(Release) = 8
        /\ Release[7] = <<"drop", "rtp">> /\ Release[8] = <<"close", "rtp">>
     \/ ~Receiving /\ Len(Release) = 7 /\ Release[7] = <<"close", "rtp">>
<1>1. << <<"ao_release", "device">> >> \in Seq(Call)
  BY DEF Call, Step
<1>2. ptpc_context_destroy \in Seq(Call)
  BY DEF ptpc_context_destroy, Call, Step, Socket
<1>3. sap_context_destroy \in Seq(Call)
  BY DEF sap_context_destroy, Call, Step, Socket
<1>4. rtp_context_destroy \in Seq(Call)
  <2>1. << <<"drop", "rtp">> >> \in Seq(Call)
    BY DEF Call, Step, Socket
  <2>2. << <<"close", "rtp">> >> \in Seq(Call)
    BY DEF Call, Step, Socket
  <2> QED BY <2>1, <2>2 DEF rtp_context_destroy
<1>5. Release \in Seq(Call)
  BY <1>1, <1>2, <1>3, <1>4 DEF Release, network_device_release
<1>6. CASE Receiving
  BY <1>5, <1>6 DEF Release, network_device_release, ptpc_context_destroy,
                    sap_context_destroy, rtp_context_destroy
<1>7. CASE ~Receiving
  BY <1>5, <1>7 DEF Release, network_device_release, ptpc_context_destroy,
                    sap_context_destroy, rtp_context_destroy
<1> QED BY <1>6, <1>7, Zenon

LEMMA CoreClose ==
  /\ aoip_core_close \in Seq(Call)
  /\ Len(aoip_core_close) = SlotNum + 1
  /\ \A i \in 1..SlotNum : aoip_core_close[i] = <<"free", "slots">>
  /\ aoip_core_close[SlotNum + 1] = <<"free_array", "slots">>
<1>1. << <<"free_array", "slots">> >> \in Seq(Call)
  BY DEF Call, Step
<1>2. [i \in 1..SlotNum |-> <<"free", "slots">>] \in Seq(Call)
  BY DeviceAssumption DEF Call, Step
<1> QED BY <1>1, <1>2, DeviceAssumption DEF aoip_core_close

LEMMA DestroyCalls ==
  LET d == aoip_context_destroy
      m == Len(Release)
  IN  /\ d \in Seq(Call)
      /\ Len(d) = m + SlotNum + 1
      /\ \A i \in 1..m : d[i] = Release[i]
      /\ \A i \in m + 1 .. m + SlotNum : d[i] = <<"free", "slots">>
      /\ d[m + SlotNum + 1] = <<"free_array", "slots">>
<1> DEFINE m == Len(Release)
<1>1. aoip_context_destroy = Release \o aoip_core_close
  BY DEF aoip_context_destroy, Release
<1>2. m \in Nat /\ Release \in Seq(Call)
  BY ReleaseCalls
<1>3. /\ Release \o aoip_core_close \in Seq(Call)
      /\ Len(Release \o aoip_core_close) = m + Len(aoip_core_close)
      /\ \A i \in 1..m : (Release \o aoip_core_close)[i] = Release[i]
      /\ \A i \in m + 1 .. m + Len(aoip_core_close) :
           (Release \o aoip_core_close)[i] = aoip_core_close[i - m]
  BY <1>2, CoreClose, ConcatCalls, Zenon
<1> HIDE DEF m
<1>4. \A i \in m + 1 .. m + SlotNum :
        (Release \o aoip_core_close)[i] = <<"free", "slots">>
  BY <1>2, <1>3, CoreClose, DeviceAssumption, SMTT(60)
<1>5. (Release \o aoip_core_close)[m + SlotNum + 1] = <<"free_array", "slots">>
  BY <1>2, <1>3, CoreClose, DeviceAssumption
<1>6. m + Len(aoip_core_close) = m + SlotNum + 1
  BY <1>2, CoreClose, DeviceAssumption
<1> QED BY <1>1, <1>3, <1>4, <1>5, <1>6, Zenon DEF m

(* Where Release drops and closes: nothing twice, and a group before its   *)
(* socket.                                                                 *)
LEMMA ReleaseOrder ==
  ASSUME NEW i \in 1..Len(Release)
  PROVE  /\ Release[i][1] \in {"drop"} \cup Closing
         /\ Release[i][1] = "ao_release" => Release[i][2] = "device"
         /\ Release[i][2] \in Socket \cup {"device"}
         /\ Release[i][1] = "drop" => Release[i][2] \in Joined
         /\ \A j \in 1 .. i - 1 :
              Release[j][2] = Release[i][2] => Release[j][1] = "drop" /\ Release[i][1] = "close"
<1>1. \/ i \in 1..6
      \/ Receiving /\ i = 7 /\ Release[i] = <<"drop", "rtp">>
      \/ Receiving /\ i = 8 /\ Release[i] = <<"close", "rtp">> /\ Release[7] = <<"drop", "rtp">>
      \/ ~Receiving /\ i = 7 /\ Release[i] = <<"close", "rtp">>
  <2>1. \/ Receiving /\ Len(Release) = 8
        \/ ~Receiving /\ Len(Release) = 7
    BY ReleaseCalls
  <2>2. i \in 1..6 \/ i = 7 \/ (Receiving /\ i = 8)
    <3>1. CASE Receiving /\ Len(Release) = 8
      BY <3>1
    <3>2. CASE ~Receiving /\ Len(Release) = 7
      BY <3>2
    <3> QED BY <2>1, <3>1, <3>2
  <2> QED BY <2>2, ReleaseCalls, Zenon
<1>2. /\ Release[1][1] = "ao_release" /\ Release[1][2] = "device"
      /\ Release[2][1] = "drop" /\ Release[2][2] = "general"
      /\ Release[3][1] = "close" /\ Release[3][2] = "general"
      /\ Release[4][1] = "drop" /\ Release[4][2] = "event"
      /\ Release[5][1] = "close" /\ Release[5][2] = "event"
      /\ Release[6][1] = "close" /\ Release[6][2] = "sap"
  BY ReleaseCalls
<1> QED BY <1>1, <1>2, SMTT(60) DEF Closing, Socket, Joined

LEMMA DestroyBegins ==
  ASSUME Whole
  PROVE  /\ aoip_context_destroy \in Seq(Call)
         /\ aoip_context_destroy # <<>>
         /\ Destroying(aoip_context_destroy)
<1> DEFINE d == aoip_context_destroy
           m == Len(Release)
<1>1. /\ d \in Seq(Call) /\ Len(d) = m + SlotNum + 1
      /\ \A i \in 1..m : d[i] = Release[i]
      /\ \A i \in m + 1 .. m + SlotNum : d[i] = <<"free", "slots">>
      /\ d[m + SlotNum + 1] = <<"free_array", "slots">>
  BY DestroyCalls
<1>2. m \in 7..8
  BY ReleaseCalls
<1>3. ASSUME NEW r \in open
      PROVE  \E i \in 1..m : Release[i][1] \in Closing /\ Release[i][2] = r
  <2>1. /\ {1, 3, 5, 6} \subseteq 1..m
        /\ \E k \in 1..m : Release[k] = <<"close", "rtp">>
    BY <1>2, ReleaseCalls, SMTT(60)
  <2>2. /\ Release[1][1] = "ao_release" /\ Release[1][2] = "device"
        /\ Release[3][1] = "close" /\ Release[3][2] = "general"
        /\ Release[5][1] = "close" /\ Release[5][2] = "event"
        /\ Release[6][1] = "close" /\ Release[6][2] = "sap"
    BY ReleaseCalls
  <2> QED BY <1>3, <2>1, <2>2 DEF Whole, Socket, Closing
<1>4. ASSUME NEW i \in 1..m
      PROVE  /\ d[i] = Release[i] /\ i # Len(d) /\ Len(d) - i \notin 1..SlotNum
             /\ i \in 1..Len(Release) /\ i \in 1..Len(d)
             /\ \A j \in 1 .. i - 1 : d[j] = Release[j]
  BY <1>1, <1>2, DeviceAssumption
<1>5. ASSUME NEW i \in m + 1 .. m + SlotNum
      PROVE  d[i] = <<"free", "slots">> /\ i # Len(d) /\ Len(d) - i \in 1..SlotNum
  BY <1>1, <1>2, DeviceAssumption
<1>6. /\ d[Len(d)] = <<"free_array", "slots">> /\ Len(d) - Len(d) \notin 1..SlotNum
      /\ Len(d) > SlotNum /\ d # <<>>
  BY <1>1, <1>2, DeviceAssumption
<1>7. \A i \in 1..Len(d) : i \in 1..m \/ i \in m + 1 .. m + SlotNum \/ i = Len(d)
  BY <1>1, <1>2, DeviceAssumption
<1> HIDE DEF d, m
<1>8. ASSUME NEW i \in 1..Len(d)
      PROVE  /\ d[i][1] \in {"drop", "free", "free_array"} \cup Closing
             /\ d[i][1] = "free" <=> Len(d) - i \in 1..SlotNum
             /\ d[i][1] = "free_array" <=> i = Len(d)
             /\ d[i][1] = "ao_release" => d[i][2] = "device"
             /\ d[i][1] \in Closing =>
                  /\ d[i][2] \in open
                  /\ \A j \in 1 .. i - 1 : d[j][1] \in Closing => d[j][2] # d[i][2]
             /\ d[i][1] = "drop" =>
                  /\ d[i][2] \in member
                  /\ \A j \in 1 .. i - 1 : d[j][2] # d[i][2]
  <2>1. CASE i \in 1..m
    BY <1>4, <2>1, ReleaseOrder, SMTT(60) DEF Closing, Whole
  <2>2. CASE i \in m + 1 .. m + SlotNum
    BY <1>5, <2>2 DEF Closing
  <2>3. CASE i = Len(d)
    BY <1>6, <2>3 DEF Closing
  <2> QED BY <1>7, <2>1, <2>2, <2>3, Zenon
<1>9. \A r \in open : \E i \in 1..Len(d) : d[i][1] \in Closing /\ d[i][2] = r
  BY <1>3, <1>4
<1> QED BY <1>1, <1>6, <1>8, <1>9 DEF Destroying, Whole, d

-----------------------------------------------------------------------------
LEMMA CreateInv ==
  ASSUME Inv, Create
  PROVE  Inv'
<1> DEFINE q == todo
           op == todo[1][1]
           r  == todo[1][2]
<1> USE DeviceAssumption
<1>1. /\ main = "create" /\ Effect(op, r) /\ todo' = Tail(todo)
      /\ main' = IF Len(todo) = 1 THEN "created" ELSE "create"
      /\ UNCHANGED <<caught_signal, flags, threads>>
  BY DEF Create
<1>2. todo \in Seq(Call) /\ todo # <<>> /\ Creating(todo)
  BY <1>1 DEF Inv, TypeOK, Call
<1>3. /\ Len(q) \in Nat \ {0} /\ Len(Tail(q)) = Len(q) - 1 /\ Tail(q) \in Seq(Call)
      /\ \A i \in 1 .. Len(q) - 1 : Tail(q)[i] = q[i + 1] /\ i + 1 \in 1..Len(q)
      /\ \A i \in 1 .. Len(q) : q[i] \in Call
  BY <1>2, TailCalls
<1>4. q[1] = <<op, r>> /\ r \in Socket \cup {"device", "slots"} /\ 1 \in 1..Len(q)
  BY <1>3 DEF Call
<1>5. /\ op \in {"socket", "bind", "option", "join", "ao_init", "malloc", "calloc"}
      /\ op \in {"malloc", "calloc"} <=> Len(q) - 1 <= SlotNum
      /\ op = "socket" => r \in Socket
      /\ op = "ao_init" => r = "device"
      /\ op = "join" => r \in Joined /\ r \in open
      /\ op = "bind" => r \notin member
  BY <1>2, <1>4 DEF Creating
<1>6. /\ open' = IF op \in {"socket", "ao_init"} THEN open \cup {r} ELSE open
      /\ member' = IF op = "join" THEN member \cup {r} ELSE member
      /\ slots' = IF op \in {"malloc", "calloc"} THEN slots + 1 ELSE slots
      /\ device' = IF op = "ao_init" THEN "ready" ELSE device
  BY <1>1, <1>5 DEF Effect
<1> HIDE DEF q, op, r
<1>7. Joined' = Joined
  BY <1>1 DEF flags, Joined, Receiving
<1>8. todo' = Tail(q) /\ Len(todo') = Len(q) - 1
  BY <1>1, <1>3 DEF q
<1>9. \A k \in 2..Len(q) : k - 1 \in 1..Len(todo') /\ todo'[k - 1] = q[k]
  BY <1>3, <1>8
<1>10. Creating(todo)'
  <2>1. ASSUME NEW i \in 1..Len(todo')
        PROVE  /\ todo'[i] = q[i + 1] /\ i + 1 \in 1..Len(q) /\ i \in Nat
               /\ Len(todo') - i = Len(q) - (i + 1)
    BY <1>3, <1>8
  <2>2. ASSUME NEW i \in 1..Len(todo'), q[i + 1][1] = "join"
        PROVE  \/ q[i + 1][2] \in open'
               \/ \E j \in 1 .. i - 1 : todo'[j] = <<"socket", q[i + 1][2]>>
    <3>1. CASE q[i + 1][2] \in open
      BY <1>6, <3>1
    <3>2. CASE q[i + 1][2] \notin open
      <4>1. PICK j \in 1..i : q[j] = <<"socket", q[i + 1][2]>>
        <5>1. \E j \in 1 .. (i + 1) - 1 : q[j] = <<"socket", q[i + 1][2]>>
          BY <1>2, <2>1, <2>2, <3>2, Zenon DEF Creating, q
        <5>2. (i + 1) - 1 = i
          BY <2>1
        <5> QED BY <5>1, <5>2
      <4>2. CASE j = 1
        BY <1>4, <1>6, <4>1, <4>2
      <4>3. CASE j # 1
        <5>1. j \in 2..Len(q) /\ j - 1 \in 1 .. i - 1
          BY <1>3, <1>8, <2>1, <4>3
        <5> QED BY <1>9, <4>1, <5>1, Zenon
      <4> QED BY <4>2, <4>3
    <3> QED BY <3>1, <3>2
  <2>3. ASSUME NEW i \in 1..Len(todo'), q[i + 1][1] = "bind"
        PROVE  /\ q[i + 1][2] \notin member'
               /\ \A j \in 1 .. i - 1 : todo'[j] # <<"join", q[i + 1][2]>>
    <3>1. /\ q[i + 1][2] \notin member
          /\ \A j \in 1..i : q[j] # <<"join", q[i + 1][2]>>
      BY <1>2, <2>1, <2>3, SMTT(60) DEF Creating, q
    <3>2. \A j \in 1 .. i - 1 : j + 1 \in 1..i /\ todo'[j] = q[j + 1]
      BY <1>3, <1>8, <2>1
    <3>3. q[1] # <<"join", q[i + 1][2]>>
      BY <2>1, <3>1
    <3> QED BY <1>4, <1>6, <3>1, <3>2, <3>3, Zenon
  <2>4. \A s \in Socket \ open' : \E i \in 1..Len(todo') : todo'[i] = <<"socket", s>>
    <3> SUFFICES ASSUME NEW s \in Socket \ open'
                 PROVE  \E i \in 1..Len(todo') : todo'[i] = <<"socket", s>>
      BY Zenon
    <3>1. PICK k \in 1..Len(q) : q[k] = <<"socket", s>>
      BY <1>2, <1>6, Zenon DEF Creating, q
    <3>2. k # 1
      BY <1>4, <1>6, <3>1
    <3>3. k \in 2..Len(q)
      BY <1>3, <3>1, <3>2
    <3>4. k - 1 \in 1..Len(todo') /\ todo'[k - 1] = q[k]
      BY <1>9, <3>3
    <3> QED BY <3>1, <3>4, Zenon
  <2>5. "device" \in open' \/ \E i \in 1..Len(todo') : todo'[i] = <<"ao_init", "device">>
    <3> SUFFICES ASSUME "device" \notin open'
                 PROVE  \E i \in 1..Len(todo') : todo'[i] = <<"ao_init", "device">>
      OBVIOUS
    <3>1. PICK k \in 1..Len(q) : q[k] = <<"ao_init", "device">>
      BY <1>2, <1>6, Zenon DEF Creating, q
    <3>2. k # 1
      BY <1>4, <1>6, <3>1
    <3>3. k \in 2..Len(q)
      BY <1>3, <3>1, <3>2
    <3>4. k - 1 \in 1..Len(todo') /\ todo'[k - 1] = q[k]
      BY <1>9, <3>3
    <3> QED BY <3>1, <3>4, Zenon
  <2>6. \A s \in Joined' \ member' : \E i \in 1..Len(todo') : todo'[i] = <<"join", s>>
    <3> SUFFICES ASSUME NEW s \in Joined \ member'
                 PROVE  \E i \in 1..Len(todo') : todo'[i] = <<"join", s>>
      BY <1>7, Zenon
    <3>1. PICK k \in 1..Len(q) : q[k] = <<"join", s>>
      BY <1>2, <1>6, Zenon DEF Creating, q
    <3>2. k # 1
      BY <1>4, <1>6, <3>1
    <3>3. k \in 2..Len(q)
      BY <1>3, <3>1, <3>2
    <3>4. k - 1 \in 1..Len(todo') /\ todo'[k - 1] = q[k]
      BY <1>9, <3>3
    <3> QED BY <3>1, <3>4, Zenon
  <2>7. slots' = IF Len(todo') > SlotNum THEN -1 ELSE SlotNum - Len(todo')
    BY <1>2, <1>3, <1>5, <1>6, <1>8 DEF Creating, q
  <2>8. ASSUME NEW i \in 1..Len(todo')
        PROVE  /\ todo'[i][1] \in {"socket", "bind", "option", "join", "ao_init",
                                   "malloc", "calloc"}
               /\ todo'[i][1] \in {"malloc", "calloc"} <=> Len(todo') - i <= SlotNum
               /\ todo'[i][1] = "socket" => todo'[i][2] \in Socket
               /\ todo'[i][1] = "ao_init" => todo'[i][2] = "device"
               /\ todo'[i][1] = "join" => todo'[i][2] \in Joined'
    BY <1>2, <1>7, <2>1, SMTT(60) DEF Creating, q
  <2>9. ASSUME NEW i \in 1..Len(todo')
        PROVE  /\ todo'[i][1] = "join" =>
                    \/ todo'[i][2] \in open'
                    \/ \E j \in 1 .. i - 1 : todo'[j] = <<"socket", todo'[i][2]>>
               /\ todo'[i][1] = "bind" =>
                    /\ todo'[i][2] \notin member'
                    /\ \A j \in 1 .. i - 1 : todo'[j] # <<"join", todo'[i][2]>>
    <3>1. todo'[i] = q[i + 1]
      BY <2>1
    <3>2. q[i + 1][1] = "join" =>
            \/ q[i + 1][2] \in open'
            \/ \E j \in 1 .. i - 1 : todo'[j] = <<"socket", q[i + 1][2]>>
      BY <2>2, Zenon
    <3>3. q[i + 1][1] = "bind" =>
            /\ q[i + 1][2] \notin member'
            /\ \A j \in 1 .. i - 1 : todo'[j] # <<"join", q[i + 1][2]>>
      BY <2>3
    <3> QED BY <3>1, <3>2, <3>3, Zenon
  <2> QED BY <2>4, <2>5, <2>6, <2>7, <2>8, <2>9, Zenon DEF Creating
<1>11. open' \subseteq Socket \cup {"device"} /\ member' \subseteq open'
       /\ (member \subseteq Joined)'
  BY <1>5, <1>6, <1>7 DEF Inv, TypeOK
<1>12. slots' \in -1 .. SlotNum
  BY <1>2, <1>3, <1>5, <1>6 DEF Creating, q
<1>13. TypeOK'
  BY <1>1, <1>3, <1>6, <1>8, <1>11, <1>12, Zenon DEF Inv, TypeOK, flags, threads, Call
<1>14. ASSUME Len(q) = 1
       PROVE  Whole'
  <2>1. Len(todo') = 0
    BY <1>8, <1>14
  <2>2. Socket \subseteq open' /\ "device" \in open' /\ Joined' \subseteq member'
    BY <1>10, <2>1 DEF Creating
  <2>3. slots' = SlotNum
    BY <1>10, <2>1 DEF Creating
  <2> QED BY <1>11, <2>2, <2>3 DEF Whole
<1>15. "device" \in open' => device' = "ready"
  BY <1>1, <1>5, <1>6 DEF Inv, Lifecycle, Socket
<1>16. Len(q) = 1 => device' = "ready"
  BY <1>14, <1>15 DEF Whole
<1>17. Lifecycle'
  <2>1. net' = "none" /\ audio' = "none" /\ main' \in {"create", "created"}
    BY <1>1 DEF Inv, Lifecycle, threads
  <2>2. main' = "created" => Len(q) = 1
    BY <1>1 DEF q
  <2> QED BY <1>15, <1>16, <2>1, <2>2 DEF Lifecycle
<1>18. main' = "create" => todo' # <<>>
  <2>1. main' = "create" => Len(todo') \in Nat \ {0}
    BY <1>1, <1>3, <1>8 DEF q
  <2> QED BY <2>1
<1>19. main' \in {"create", "created"} /\ (main' = "created" => Len(q) = 1)
  BY <1>1 DEF q
<1> QED BY <1>10, <1>11, <1>13, <1>14, <1>17, <1>18, <1>19 DEF Inv, Running, NothingLeft

LEMMA DestroyInv ==
  ASSUME Inv, Destroy
  PROVE  Inv'
<1> DEFINE q == todo
           op == todo[1][1]
           r  == todo[1][2]
<1> USE DeviceAssumption
<1>1. /\ main = "destroy" /\ (Effect(op, r) \/ (op = "drop" /\ UNCHANGED held))
      /\ todo' = Tail(todo)
      /\ main' = IF Len(todo) = 1 THEN "done" ELSE "destroy"
      /\ UNCHANGED <<caught_signal, flags, threads>>
  BY Zenon DEF Destroy
<1>2. todo \in Seq(Call) /\ todo # <<>> /\ Destroying(todo)
  BY <1>1 DEF Inv, TypeOK, Call
<1>3. /\ Len(q) \in Nat \ {0} /\ Len(Tail(q)) = Len(q) - 1 /\ Tail(q) \in Seq(Call)
      /\ \A i \in 1 .. Len(q) - 1 : Tail(q)[i] = q[i + 1] /\ i + 1 \in 1..Len(q)
      /\ \A i \in 1 .. Len(q) : q[i] \in Call
  BY <1>2, TailCalls
<1>4. q[1][1] = op /\ q[1][2] = r /\ 1 \in 1..Len(q)
  BY <1>3
<1>5. /\ op \in {"drop", "free", "free_array"} \cup Closing
      /\ op = "free" <=> Len(q) - 1 \in 1..SlotNum
      /\ op = "free_array" <=> 1 = Len(q)
      /\ op = "ao_release" => r = "device"
      /\ op \in Closing => r \in open
      /\ op = "drop" => r \in member
  BY <1>2, <1>4, Zenon DEF Destroying
<1>6. /\ open' = IF op \in Closing THEN open \ {r} ELSE open
      /\ member' \in {member, member \ {r}}
      /\ op \in {"free", "free_array", "ao_release"} => member' = member
      /\ op = "close" => member' = member \ {r}
      /\ slots' = IF op \in {"free", "free_array"} THEN slots - 1 ELSE slots
      /\ device' = IF op = "ao_release" THEN "released" ELSE device
  BY <1>1, <1>5 DEF Effect, Closing, held
<1> HIDE DEF q, op, r
<1>7. Joined' = Joined
  BY <1>1 DEF flags, Joined, Receiving
<1>8. todo' = Tail(q) /\ Len(todo') = Len(q) - 1
  BY <1>1, <1>3 DEF q
<1>9. \A k \in 2..Len(q) : k - 1 \in 1..Len(todo') /\ todo'[k - 1] = q[k]
  BY <1>3, <1>8
<1>10. Destroying(todo)'
  <2>1. ASSUME NEW i \in 1..Len(todo')
        PROVE  /\ todo'[i] = q[i + 1] /\ i + 1 \in 1..Len(q) /\ i \in Nat /\ (i + 1) - 1 = i
               /\ Len(todo') - i = Len(q) - (i + 1)
               /\ i + 1 = Len(q) <=> i = Len(todo')
               /\ \A j \in 1 .. i - 1 : todo'[j] = q[j + 1] /\ j + 1 \in 1..i
               /\ 1 \in 1..i
    BY <1>3, <1>8
  <2>2. ASSUME NEW i \in 1..Len(todo'), q[i + 1][1] \in Closing
        PROVE  /\ q[i + 1][2] \in open'
               /\ \A j \in 1 .. i - 1 : todo'[j][1] \in Closing => todo'[j][2] # q[i + 1][2]
    <3>1. /\ q[i + 1][2] \in open
          /\ \A j \in 1 .. (i + 1) - 1 : q[j][1] \in Closing => q[j][2] # q[i + 1][2]
      BY <1>2, <2>1, <2>2, Zenon DEF Destroying, q
    <3>2. \A j \in 1..i : q[j][1] \in Closing => q[j][2] # q[i + 1][2]
      BY <2>1, <3>1, Zenon
    <3>3. op \in Closing => r # q[i + 1][2]
      BY <1>4, <2>1, <3>2, Zenon
    <3>4. q[i + 1][2] \in open'
      BY <1>6, <3>1, <3>3
    <3>5. ASSUME NEW j \in 1 .. i - 1
          PROVE  todo'[j][1] \in Closing => todo'[j][2] # q[i + 1][2]
      <4>1. todo'[j] = q[j + 1] /\ j + 1 \in 1..i
        BY <2>1, Zenon
      <4> QED BY <3>2, <4>1
    <3> QED BY <3>4, <3>5
  <2>3. ASSUME NEW i \in 1..Len(todo'), q[i + 1][1] = "drop"
        PROVE  /\ q[i + 1][2] \in member'
               /\ \A j \in 1 .. i - 1 : todo'[j][2] # q[i + 1][2]
    <3>1. /\ q[i + 1][2] \in member
          /\ \A j \in 1 .. (i + 1) - 1 : q[j][2] # q[i + 1][2]
      BY <1>2, <2>1, <2>3, Zenon DEF Destroying, q
    <3>2. \A j \in 1..i : q[j][2] # q[i + 1][2]
      BY <2>1, <3>1
    <3>3. r # q[i + 1][2]
      BY <1>4, <2>1, <3>2, Zenon
    <3>4. q[i + 1][2] \in member'
      BY <1>6, <3>1, <3>3
    <3>5. ASSUME NEW j \in 1 .. i - 1
          PROVE  todo'[j][2] # q[i + 1][2]
      <4>1. todo'[j] = q[j + 1] /\ j + 1 \in 1..i
        BY <2>1
      <4> QED BY <3>2, <4>1
    <3> QED BY <3>4, <3>5, Zenon
  <2>4. \A s \in open' : \E i \in 1..Len(todo') : todo'[i][1] \in Closing /\ todo'[i][2] = s
    <3> SUFFICES ASSUME NEW s \in open'
                 PROVE  \E i \in 1..Len(todo') : todo'[i][1] \in Closing /\ todo'[i][2] = s
      OBVIOUS
    <3>1. PICK k \in 1..Len(q) : q[k][1] \in Closing /\ q[k][2] = s
      BY <1>2, <1>6, Zenon DEF Destroying, q
    <3>2. k # 1
      BY <1>4, <1>6, <3>1
    <3>3. k \in 2..Len(q)
      BY <1>3, <3>2
    <3> QED BY <1>9, <3>1, <3>3
  <2>5. slots' = IF Len(todo') > SlotNum THEN SlotNum ELSE Len(todo') - 1
    <3>1. slots = IF Len(q) > SlotNum THEN SlotNum ELSE Len(q) - 1
      BY <1>2, Zenon DEF Destroying, q
    <3>2. op \in {"free", "free_array"} <=> Len(q) <= SlotNum + 1
      BY <1>3, <1>5
    <3>3. slots' = IF Len(q) <= SlotNum + 1 THEN slots - 1 ELSE slots
      BY <1>6, <3>2
    <3>4. Len(q) \in Int /\ SlotNum \in Int /\ Len(todo') = Len(q) - 1
      BY <1>3, <1>8
    <3>5. CASE Len(q) > SlotNum + 1
      BY <3>1, <3>3, <3>4, <3>5
    <3>6. CASE Len(q) = SlotNum + 1
      BY <3>1, <3>3, <3>4, <3>6
    <3>7. CASE Len(q) <= SlotNum
      BY <3>1, <3>3, <3>4, <3>7
    <3> QED BY <3>4, <3>5, <3>6, <3>7
  <2>6. ASSUME NEW i \in 1..Len(todo')
        PROVE  /\ todo'[i][1] \in {"drop", "free", "free_array"} \cup Closing
               /\ todo'[i][1] = "free" <=> Len(todo') - i \in 1..SlotNum
               /\ todo'[i][1] = "free_array" <=> i = Len(todo')
               /\ todo'[i][1] = "ao_release" => todo'[i][2] = "device"
    BY <1>2, <2>1, SMTT(60) DEF Destroying, q
  <2>7. ASSUME NEW i \in 1..Len(todo')
        PROVE  /\ todo'[i][1] \in Closing =>
                    /\ todo'[i][2] \in open'
                    /\ \A j \in 1 .. i - 1 : todo'[j][1] \in Closing => todo'[j][2] # todo'[i][2]
               /\ todo'[i][1] = "drop" =>
                    /\ todo'[i][2] \in member'
                    /\ \A j \in 1 .. i - 1 : todo'[j][2] # todo'[i][2]
    <3>1. todo'[i] = q[i + 1]
      BY <2>1
    <3>2. q[i + 1][1] \in Closing =>
            /\ q[i + 1][2] \in open'
            /\ \A j \in 1 .. i - 1 : todo'[j][1] \in Closing => todo'[j][2] # q[i + 1][2]
      BY <2>2
    <3>3. q[i + 1][1] = "drop" =>
            /\ q[i + 1][2] \in member'
            /\ \A j \in 1 .. i - 1 : todo'[j][2] # q[i + 1][2]
      BY <2>3
    <3> QED BY <3>1, <3>2, <3>3, Zenon
  <2> QED BY <2>4, <2>5, <2>6, <2>7, Zenon DEF Destroying
<1>11. /\ open' \subseteq Socket \cup {"device"}
       /\ member' \subseteq open'
       /\ (member \subseteq Joined)'
  <2>1. "device" \notin member
    BY DEF Inv, Joined
  <2> QED BY <1>5, <1>6, <1>7, <2>1, Zenon DEF Inv, TypeOK, Closing
<1>12. slots' \in -1 .. SlotNum
  <2>1. slots' = IF Len(todo') > SlotNum THEN SlotNum ELSE Len(todo') - 1
    BY <1>10 DEF Destroying
  <2> QED BY <1>3, <1>8, <2>1
<1>13. TypeOK'
  BY <1>1, <1>3, <1>6, <1>8, <1>11, <1>12, Zenon DEF Inv, TypeOK, flags, threads, Call
<1>14. Lifecycle'
  BY <1>1, <1>6, Zenon DEF Inv, Lifecycle, threads
<1>15. ASSUME Len(q) = 1
       PROVE  open' = {} /\ member' = {} /\ slots' = -1
  <2>1. Len(todo') = 0
    BY <1>8, <1>15
  <2> QED BY <1>10, <1>11, <2>1 DEF Destroying
<1>16. Len(q) # 1 => todo' # <<>>
  <2>1. Len(q) # 1 => Len(todo') \in Nat \ {0}
    BY <1>3, <1>8
  <2> QED BY <2>1
<1>17. main' = IF Len(q) = 1 THEN "done" ELSE "destroy"
  BY <1>1 DEF q
<1> QED BY <1>10, <1>11, <1>13, <1>14, <1>15, <1>16, <1>17 DEF Inv, Running, NothingLeft

-----------------------------------------------------------------------------
(* Every other step leaves what the process holds as it is; only JoinAudio *)
(* has new calls to make.                                                  *)
LEMMA OtherInv ==
  ASSUME Inv, [Next]_vars, ~Create, ~Destroy
  PROVE  Inv'
<1> USE DEF Inv
<1>1. CASE UNCHANGED vars
  <2>1. Joined' = Joined /\ Creating(todo)' = Creating(todo)
        /\ Destroying(todo)' = Destroying(todo)
    <3>1. Joined' = Joined
      BY <1>1, ZenonT(60) DEF vars, Joined, Receiving
    <3>2. Creating(todo)' = Creating(todo)
      BY <1>1, <3>1, SMTT(60) DEF vars, Creating
    <3>3. Destroying(todo)' = Destroying(todo)
      BY <1>1 DEF vars, Destroying
    <3> QED BY <3>1, <3>2, <3>3
  <2> QED BY <1>1, <2>1, SMTT(60) DEF vars, TypeOK, Lifecycle, Running, Whole, NothingLeft
<1>2. CASE CreateFails
  <2>1. todo # <<>> /\ Creating(todo) /\ todo \in Seq(Call)
    BY <1>2 DEF CreateFails, TypeOK, Call
  <2>2. todo[1][1] = "bind" => todo[1][2] \notin member
    <3>1. 1 \in 1..Len(todo)
      BY <2>1, TailCalls
    <3> QED BY <2>1, <3>1, Zenon DEF Creating
  <2>3. Joined' = Joined
    BY <1>2, Zenon DEF CreateFails, flags, Joined, Receiving
  <2>4. TypeOK'
    BY <1>2, <2>2, Zenon DEF CreateFails, TypeOK, flags, threads
  <2> QED BY <1>2, <2>3, <2>4, Zenon DEF CreateFails, threads, Lifecycle, Running, NothingLeft
<1>3. CASE JoinAudio
  <2>1. Whole /\ TypeOK
    BY <1>3 DEF JoinAudio, Running
  <2>2. /\ todo' \in Seq(Call) /\ todo' # <<>> /\ Destroying(aoip_context_destroy)
        /\ todo' = aoip_context_destroy
    BY <1>3, <2>1, DestroyBegins, SMTT(60) DEF JoinAudio
  <2>3. Destroying(todo)'
    BY <1>3, <2>2 DEF JoinAudio, Destroying, held
  <2>4. Joined' = Joined
    BY <1>3 DEF JoinAudio, flags, Joined, Receiving
  <2>5. TypeOK'
    BY <1>3, <2>1, <2>2, Zenon DEF JoinAudio, TypeOK, flags, threads, held, Call
  <2> QED BY <1>3, <2>2, <2>3, <2>4, <2>5, Zenon
          DEF JoinAudio, threads, held, Lifecycle, Running, NothingLeft
<1>4. CASE StartNetwork \/ StartAudio \/ Wait \/ network_cb_stop \/ audio_cb_stop \/ JoinNetwork
  <2>1. /\ main \in Running /\ main' \in Running \cup {"failed"}
        /\ UNCHANGED <<rtp_mode, todo, held, ao_failed>>
    BY <1>4, Zenon DEF StartNetwork, StartAudio, Wait, network_cb_stop, audio_cb_stop, JoinNetwork,
                Running, flags, threads, held
  <2>2. Joined' = Joined
    BY <2>1, Zenon DEF Joined, Receiving
  <2>3. TypeOK'
    BY <1>4, <2>1, ZenonT(60)
         DEF TypeOK, StartNetwork, StartAudio, Wait, network_cb_stop, audio_cb_stop,
                      JoinNetwork, flags, threads, held
  <2>4. Lifecycle'
    BY <1>4, <2>1, Zenon DEF Lifecycle, StartNetwork, StartAudio, Wait, network_cb_stop, audio_cb_stop,
                      JoinNetwork, flags, threads, held
  <2> QED BY <2>1, <2>2, <2>3, <2>4, Zenon DEF held, Running, Whole, NothingLeft
<1>5. CASE NetworkStops \/ NetworkFails \/ AudioOpen \/ AudioStops \/ AudioClose \/ AudioFails
           \/ sig_handler
  <2>1. /\ main' = main /\ UNCHANGED <<rtp_mode, todo, open, member, slots>>
    BY <1>5, Zenon DEF NetworkStops, NetworkFails, AudioOpen, AudioStops, AudioClose, AudioFails,
                sig_handler, flags, held
  <2>2. /\ Joined' = Joined /\ Creating(todo)' = Creating(todo)
        /\ Destroying(todo)' = Destroying(todo)
    <3>1. Joined' = Joined
      BY <2>1, Zenon DEF Joined, Receiving
    <3>2. Creating(todo)' = Creating(todo)
      BY <2>1, <3>1, SMTT(60) DEF Creating
    <3>3. Destroying(todo)' = Destroying(todo)
      BY <2>1 DEF Destroying
    <3> QED BY <3>1, <3>2, <3>3, Zenon
  <2>3. TypeOK'
    <3>1. /\ caught_signal' \in BOOLEAN /\ network_stop_flag' \in BOOLEAN
          /\ audio_stop_flag' \in BOOLEAN /\ ao_failed' \in BOOLEAN
      BY <1>5, Zenon DEF TypeOK, NetworkStops, NetworkFails, AudioOpen, AudioStops, AudioClose,
                  AudioFails, sig_handler, flags, threads
    <3>2. /\ net' \in {"none", "running", "ended"}
          /\ audio' \in {"none", "open", "loop", "close", "ended"}
          /\ device' \in {"none", "ready", "open", "closed", "released"}
      BY <1>5, Zenon DEF TypeOK, NetworkStops, NetworkFails, AudioOpen, AudioStops, AudioClose,
                  AudioFails, sig_handler, threads, held
    <3> QED BY <2>1, <3>1, <3>2, Zenon DEF TypeOK
  <2>4. Lifecycle'
    BY <1>5, <2>1, Zenon DEF Lifecycle, NetworkStops, NetworkFails, AudioOpen, AudioStops, AudioClose,
                      AudioFails, sig_handler, flags, threads, held
  <2> QED BY <2>1, <2>2, <2>3, <2>4, Zenon DEF Whole, NothingLeft
<1> QED BY <1>1, <1>2, <1>3, <1>4, <1>5, Zenon DEF Next, Main, Threads

LEMMA StepInv == Inv /\ [Next]_vars => Inv'
BY CreateInv, DestroyInv, OtherInv

(* Every state the process can be in is one the invariant describes. *)
LEMMA Invariant == Spec => []Inv
BY InitInv, StepInv, PTL DEF Spec

(* What the invariant says of a state. *)
LEMMA InvGives ==
  ASSUME Inv
  PROVE  TypeOK /\ ThreadsHaveContext /\ GivenBackOnce /\ NothingLeft /\ ClosedUnlessFailed
<1>1. TypeOK /\ NothingLeft
  BY DEF Inv
<1>2. ThreadsHaveContext
  BY Zenon DEF Inv, TypeOK, ThreadsHaveContext, Alive, Lifecycle, Running, Whole
<1>3. GivenBackOnce
  <2> SUFFICES ASSUME main = "destroy" PROVE GivenBackOnce
    BY Zenon DEF GivenBackOnce
  <2>1. todo \in Seq(Call) /\ todo # <<>> /\ Destroying(todo)
    BY Zenon DEF Inv, TypeOK, Call
  <2>2. Len(todo) \in Nat \ {0} /\ 1 \in 1..Len(todo)
    BY <2>1, TailCalls
  <2>3. /\ todo[1][1] \in {"drop", "free", "free_array"} \cup Closing
        /\ todo[1][1] = "free" => Len(todo) - 1 \in 1..SlotNum
        /\ todo[1][1] = "free_array" => Len(todo) = 1
        /\ todo[1][1] \in Closing => todo[1][2] \in open
        /\ todo[1][1] = "drop" => todo[1][2] \in member
    BY <2>1, <2>2, Zenon DEF Destroying
  <2>4. slots = IF Len(todo) > SlotNum THEN SlotNum ELSE Len(todo) - 1
    BY <2>1, Zenon DEF Destroying
  <2>5. Len(todo) - 1 \in 1..SlotNum => slots > 0
    BY <2>2, <2>4, DeviceAssumption
  <2>6. Len(todo) = 1 => slots = 0
    BY <2>2, <2>4, DeviceAssumption
  <2> QED BY <2>3, <2>5, <2>6, Zenon DEF GivenBackOnce, Closing
<1>4. ClosedUnlessFailed
  BY DEF Inv, Lifecycle, ClosedUnlessFailed
<1> QED BY <1>1, <1>2, <1>3, <1>4

(* What main, the threads and the sockets can hold at all. *)
THEOREM TypeCorrect == Spec => []TypeOK
BY InvGives, Invariant, PTL

(* However many slots there are, and wherever SIGINT finds the process, no *)
(* thread ever runs on a context that is not whole: aoip_context_destroy   *)
(* comes after both pthread_joins.                                         *)
THEOREM ContextOutlivesThreads == Spec => []ThreadsHaveContext
BY InvGives, Invariant, PTL

(* aoip_context_destroy gives nothing back that is not there: no double    *)
(* close, no double free and no group left that was never joined.          *)
THEOREM NothingGivenBackTwice == Spec => []GivenBackOnce
BY InvGives, Invariant, PTL

(* And it gives everything back: the process that returns from main holds  *)
(* no socket, no membership and no buffer.                                 *)
THEOREM EverythingGivenBack == Spec => []NothingLeft
BY InvGives, Invariant, PTL

(* The audio thread closes the device it opened before ao_release, unless  *)
(* a callback failed.                                                      *)
THEOREM DeviceClosed == Spec => []ClosedUnlessFailed
BY InvGives, Invariant, PTL

-----------------------------------------------------------------------------
(***************************************************************************)
(* The end of the process.                                                 *)
(***************************************************************************)

(* Past each flag it is set, and past each pthread_create there is the     *)
(* thread.                                                                 *)
Told ==
  /\ main \in {"stop_audio", "join_net", "join_audio"} => network_stop_flag
  /\ main \in {"join_net", "join_audio"} => audio_stop_flag
  /\ main \in Running \ {"created"} => net # "none"
  /\ main \in Running \ {"created", "start_audio"} => audio # "none"

LEMMA ToldInit == Init => Told
BY Zenon DEF Init, Told, Running

LEMMA ToldStep == Told /\ [Next]_vars => Told'
<1> SUFFICES ASSUME Told, [Next]_vars PROVE Told'
  OBVIOUS
<1> USE DEF Told, Running
<1>1. CASE Create \/ CreateFails \/ Destroy \/ UNCHANGED vars
  BY <1>1, Zenon DEF Create, CreateFails, Destroy, vars, flags, threads
<1>2. CASE StartNetwork \/ StartAudio \/ Wait
  BY <1>2, Zenon DEF StartNetwork, StartAudio, Wait, flags, threads
<1>3. CASE network_cb_stop \/ audio_cb_stop \/ JoinNetwork \/ JoinAudio
  BY <1>3, Zenon DEF network_cb_stop, audio_cb_stop, JoinNetwork, JoinAudio, flags, threads
<1>4. CASE NetworkStops \/ NetworkFails \/ sig_handler
  BY <1>4, Zenon DEF NetworkStops, NetworkFails, sig_handler, flags, threads
<1>5. CASE AudioOpen \/ AudioStops \/ AudioClose \/ AudioFails
  BY <1>5, Zenon DEF AudioOpen, AudioStops, AudioClose, AudioFails, flags
<1> QED BY <1>1, <1>2, <1>3, <1>4, <1>5, Zenon DEF Next, Main, Threads

(* Then the thread main waits for can go on. *)
LEMMA ToldGoesOn == TypeOK /\ Told => SomeoneGoesOn
BY Zenon DEF TypeOK, Told, Running, SomeoneGoesOn

(* The destruction is as long as there are sockets and slots. *)
LEMMA DestroyLength == Len(aoip_context_destroy) \in Nat /\ Len(aoip_context_destroy) > 7
<1> DEFINE m == Len(Release)
           n == Len(aoip_context_destroy)
<1>1. m = 7 \/ m = 8
  BY ReleaseCalls, Zenon
<1>2. n = m + SlotNum + 1
  BY DestroyCalls, Zenon
<1> HIDE DEF m, n
<1>3. n \in Nat /\ n > 7
  BY <1>1, <1>2, DeviceAssumption
<1>4. QED
  BY <1>3 DEF n

(* The bound is a number. *)
LEMMA LifeLeftType ==
  ASSUME TypeOK
  PROVE  MainLeft \in Nat /\ NetLeft \in Nat /\ AudioLeft \in Nat /\ SignalLeft \in Nat
<1>1. Len(todo) \in Nat
  BY DEF TypeOK
<1>2. MainLeft \in Nat
  BY <1>1, DestroyLength DEF TypeOK, MainLeft, MainOrder
<1>3. NetLeft \in Nat /\ AudioLeft \in Nat
  BY DEF TypeOK, NetLeft, AudioLeft
<1>4. SignalLeft \in Nat
  BY DEF SignalLeft
<1>5. QED
  BY <1>2, <1>3, <1>4

(* A call made, or given up, is one less. *)
LEMMA CallCountsDown ==
  ASSUME TypeOK, todo # <<>>, Create \/ CreateFails \/ Destroy
  PROVE  /\ MainLeft' < MainLeft
         /\ NetLeft' = NetLeft /\ AudioLeft' = AudioLeft /\ SignalLeft' = SignalLeft
<1>1. /\ Len(todo) \in Nat \ {0} /\ Len(Tail(todo)) = Len(todo) - 1
  BY TailCalls DEF TypeOK, Call
<1>2. UNCHANGED <<rtp_mode, net, audio, caught_signal>>
  BY Zenon DEF Create, CreateFails, Destroy, flags, threads
<1>3. aoip_context_destroy' = aoip_context_destroy
  BY <1>2 DEF aoip_context_destroy, network_device_release, rtp_context_destroy, Receiving
<1>4. NetLeft' = NetLeft /\ AudioLeft' = AudioLeft /\ SignalLeft' = SignalLeft
  BY <1>2, Zenon DEF NetLeft, AudioLeft, SignalLeft
<1>5. CASE Create
  BY <1>1, <1>3, <1>4, <1>5, DestroyLength DEF Create, MainLeft, MainOrder
<1>6. CASE CreateFails
  BY <1>1, <1>3, <1>4, <1>6, DestroyLength DEF CreateFails, MainLeft, MainOrder
<1>7. CASE Destroy
  BY <1>1, <1>3, <1>4, <1>7, DestroyLength DEF Destroy, MainLeft, MainOrder
<1>8. QED
  BY <1>4, <1>5, <1>6, <1>7

(* Between the two main goes from one stage to the next. *)
LEMMA MainCountsDown ==
  ASSUME \/ StartNetwork \/ StartAudio \/ Wait \/ network_cb_stop \/ audio_cb_stop
         \/ JoinNetwork \/ JoinAudio
  PROVE  MainLeft' < MainLeft
<1>1. aoip_context_destroy' = aoip_context_destroy
  BY Zenon DEF StartNetwork, StartAudio, Wait, network_cb_stop, audio_cb_stop, JoinNetwork, JoinAudio,
         flags, aoip_context_destroy, network_device_release, rtp_context_destroy, Receiving
<1> DEFINE n == Len(aoip_context_destroy)
<1>2. n \in Nat /\ n' = n
  BY <1>1, DestroyLength
<1> HIDE DEF n
<1>3. CASE StartNetwork \/ StartAudio \/ Wait
  BY <1>2, <1>3 DEF StartNetwork, StartAudio, Wait, MainLeft, MainOrder, n
<1>4. CASE network_cb_stop \/ audio_cb_stop \/ JoinNetwork
  BY <1>2, <1>4 DEF network_cb_stop, audio_cb_stop, JoinNetwork, MainLeft, MainOrder, n
<1>5. CASE JoinAudio
  BY <1>1, <1>2, <1>5 DEF JoinAudio, MainLeft, MainOrder, n
<1>6. QED
  BY <1>3, <1>4, <1>5

(* A sum is lower when one of its parts is and none is higher. *)
LEMMA SumLower ==
  ASSUME NEW a \in Nat, NEW b \in Nat, NEW c \in Nat, NEW d \in Nat,
         NEW p \in Nat, NEW q \in Nat, NEW r \in Nat, NEW t \in Nat,
         p <= a, q <= b, r <= c, t <= d,
         p < a \/ q < b \/ r < c \/ t < d
  PROVE  p + q + r + t < a + b + c + d
OBVIOUS

(* And so the bound on what is left of the life. *)
LEMMA PartsLower ==
  ASSUME TypeOK, TypeOK',
         MainLeft' <= MainLeft, NetLeft' <= NetLeft,
         AudioLeft' <= AudioLeft, SignalLeft' <= SignalLeft,
         \/ MainLeft' < MainLeft \/ NetLeft' < NetLeft
         \/ AudioLeft' < AudioLeft \/ SignalLeft' < SignalLeft
  PROVE  LifeLeft' < LifeLeft
<1>1. MainLeft \in Nat /\ NetLeft \in Nat /\ AudioLeft \in Nat /\ SignalLeft \in Nat
  BY LifeLeftType
<1>2. (MainLeft \in Nat /\ NetLeft \in Nat /\ AudioLeft \in Nat /\ SignalLeft \in Nat)'
  BY LifeLeftType, DestroyLength, PTL
<1> QED BY <1>1, <1>2, SumLower, Zenon DEF LifeLeft

(* Every step of main, of a thread or of SIGINT is one less. *)
LEMMA StepCountsDown ==
  ASSUME TypeOK, TypeOK', Next,
         main \in {"create", "destroy"} => todo # <<>>,
         main = "created" => net = "none",
         main = "start_audio" => audio = "none"
  PROVE  LifeLeft' < LifeLeft
<1>1. /\ MainLeft \in Nat /\ NetLeft \in Nat /\ AudioLeft \in Nat /\ SignalLeft \in Nat
      /\ MainLeft' \in Nat /\ NetLeft' \in Nat /\ AudioLeft' \in Nat /\ SignalLeft' \in Nat
  <2>1. MainLeft \in Nat /\ NetLeft \in Nat /\ AudioLeft \in Nat /\ SignalLeft \in Nat
    BY LifeLeftType
  <2>2. (MainLeft \in Nat /\ NetLeft \in Nat /\ AudioLeft \in Nat /\ SignalLeft \in Nat)'
    BY LifeLeftType, DestroyLength, PTL
  <2> QED BY <2>1, <2>2
<1>2. ASSUME /\ MainLeft' <= MainLeft /\ NetLeft' <= NetLeft
             /\ AudioLeft' <= AudioLeft /\ SignalLeft' <= SignalLeft
             /\ \/ MainLeft' < MainLeft \/ NetLeft' < NetLeft
                \/ AudioLeft' < AudioLeft \/ SignalLeft' < SignalLeft
      PROVE  LifeLeft' < LifeLeft
  BY <1>2, PartsLower, Zenon
<1>3. CASE Create \/ CreateFails \/ Destroy
  <2>1. todo # <<>>
    BY <1>3, Zenon DEF Create, CreateFails, Destroy
  <2>2. /\ MainLeft' < MainLeft
        /\ NetLeft' = NetLeft /\ AudioLeft' = AudioLeft /\ SignalLeft' = SignalLeft
    BY <1>3, <2>1, CallCountsDown
  <2> QED BY <1>1, <1>2, <2>2
<1>4. CASE \/ StartNetwork \/ StartAudio \/ Wait \/ network_cb_stop \/ audio_cb_stop
           \/ JoinNetwork \/ JoinAudio
  <2>1. MainLeft' < MainLeft
    BY <1>4, MainCountsDown
  <2>2. NetLeft' <= NetLeft
    <3>1. NetLeft' = NetLeft \/ (main = "created" /\ net' = "running")
      BY <1>4, Zenon DEF NetLeft, StartNetwork, StartAudio, Wait, network_cb_stop, audio_cb_stop,
                  JoinNetwork, JoinAudio, threads
    <3> QED BY <1>1, <3>1 DEF NetLeft
  <2>3. AudioLeft' <= AudioLeft
    <3>1. AudioLeft' = AudioLeft \/ (main = "start_audio" /\ audio' = "open")
      BY <1>4, Zenon DEF AudioLeft, StartNetwork, StartAudio, Wait, network_cb_stop, audio_cb_stop,
                  JoinNetwork, JoinAudio, threads
    <3> QED BY <1>1, <3>1 DEF AudioLeft
  <2>4. SignalLeft' = SignalLeft
    BY <1>4 DEF StartNetwork, StartAudio, Wait, network_cb_stop, audio_cb_stop, JoinNetwork,
                JoinAudio, SignalLeft
  <2> QED BY <1>1, <1>2, <2>1, <2>2, <2>3, <2>4
<1>5. CASE NetworkStops \/ NetworkFails \/ AudioOpen \/ AudioStops \/ AudioClose \/ AudioFails
           \/ sig_handler
  <2>1. MainLeft' = MainLeft
    BY <1>5 DEF NetworkStops, NetworkFails, AudioOpen, AudioStops, AudioClose, AudioFails,
                sig_handler, flags, MainLeft, aoip_context_destroy, network_device_release,
                rtp_context_destroy, Receiving
  <2>2. CASE NetworkStops \/ NetworkFails
    <3>1. NetLeft' < NetLeft /\ AudioLeft' = AudioLeft /\ SignalLeft' = SignalLeft
      BY <2>2 DEF NetworkStops, NetworkFails, NetLeft, AudioLeft, SignalLeft
    <3> QED BY <1>1, <1>2, <2>1, <3>1, SMTT(60)
  <2>3. CASE AudioOpen \/ AudioStops \/ AudioClose \/ AudioFails
    <3>1. AudioLeft' < AudioLeft /\ NetLeft' = NetLeft /\ SignalLeft' = SignalLeft
      BY <2>3 DEF AudioOpen, AudioStops, AudioClose, AudioFails, NetLeft, AudioLeft, SignalLeft
    <3> QED BY <1>1, <1>2, <2>1, <3>1, SMTT(60)
  <2>4. CASE sig_handler
    <3>1. NetLeft' = NetLeft /\ AudioLeft' = AudioLeft /\ SignalLeft = 1 /\ SignalLeft' = 0
      BY <2>4, Zenon DEF sig_handler, threads, NetLeft, AudioLeft, SignalLeft
    <3> QED BY <1>1, <1>2, <2>1, <3>1
  <2> QED BY <1>5, <2>2, <2>3, <2>4
<1> QED BY <1>3, <1>4, <1>5 DEF Next, Main, Threads

(* In the process, then. *)
LEMMA LifeStep == Inv /\ [Next]_vars => [LifeLeft' < LifeLeft]_vars
<1> SUFFICES ASSUME Inv, Next PROVE LifeLeft' < LifeLeft
  OBVIOUS
<1>1. TypeOK /\ TypeOK'
  BY StepInv DEF Inv
<1>2. /\ main \in {"create", "destroy"} => todo # <<>>
      /\ main = "created" => net = "none"
      /\ main = "start_audio" => audio = "none"
  BY DEF Inv, Lifecycle
<1> QED BY <1>1, <1>2, StepCountsDown

(* After SIGINT main never waits in pthread_join for a thread that was not *)
(* told to stop: however the threads end, main and the one it waits for    *)
(* are never both held up.                                                 *)
THEOREM NoJoinWaitsForEver == Spec => []SomeoneGoesOn
BY Invariant, InvGives, ToldInit, ToldStep, ToldGoesOn, PTL DEF Spec

(* However many slots there are, the process has a bounded number of steps *)
(* in it: nothing is begun again.  With NoJoinWaitsForEver this is the     *)
(* safety part of SignalEnds.                                              *)
THEOREM LifeIsBounded == Spec => LifeCountsDown
BY Invariant, LifeStep, PTL DEF Spec, LifeCountsDown
=============================================================================
