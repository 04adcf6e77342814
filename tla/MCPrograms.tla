----------------------------- MODULE MCPrograms -----------------------------
(* The five programs with the sessions compiled into them.  simple-sapc    *)
(* is also tried with names and addresses at the edges of their lengths,   *)
(* the times from 2038 on, and names that hold "c=": with other words      *)
(* behind it, or with "IN IP4 224.0.0.1/", which is the session's own      *)
(* address or not.                                                         *)
EXTENDS Programs

Plain(len) == [len |-> len, marks |-> {}]

Sess(name, mcast, time) ==
  [name |-> name, local |-> <<10, 0, 1, 104>>, mcast |-> mcast,
   format |-> 24, rate |-> 48000, channels |-> 2, time |-> time]

RTP_MULTICAST_GROUP == <<239, 69, 179, 222>>

CompiledIn == Sess(Plain(16), RTP_MULTICAST_GROUP, 1700000000)

Holding(len, at, addr) == [len |-> len, marks |-> {[at |-> at, addr |-> addr]}]

Names ==
  {Plain(1), Plain(16), Plain(31), Holding(16, 3, NotFound), Holding(24, 5, <<224, 0, 0, 1>>)}

Groups == {RTP_MULTICAST_GROUP, <<224, 0, 0, 1>>, <<239, 169, 179, 201>>}

MCSession ==
  [p \in Devices \cup Clients |->
     IF p = "simple-sapc"
     THEN {Sess(n, g, t) : n \in Names, g \in Groups, t \in {1700000000, -2000000000}}
     ELSE {CompiledIn}]
=============================================================================
