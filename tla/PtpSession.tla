----------------------------- MODULE PtpSession -----------------------------
(***************************************************************************)
(* The client of Ptpc driven by ptpc_announce_msg_loop and ptpc_sync_loop  *)
(* (lib/aoip.c), against PTP servers and a network that loses, repeats and *)
(* reorders messages.  Another client of the same server may be present:   *)
(* Delay_Resp messages are multicast, so each client sees the answers to   *)
(* the other.  The loops' timeouts are NetworkLoop's subject.              *)
(*                                                                         *)
(* Servers and network are not part of the repository; they do what the    *)
(* client's handlers expect of them and no more.                           *)
(***************************************************************************)
EXTENDS Ptpc, Sequences, FiniteSets

CONSTANTS Server,       \* clock identities, nonzero
          Flags,        \* header flags of each server's messages
          Domain,       \* PTP domain of each server
          Shared,       \* the servers that have another client
          Offset,       \* each server's clock minus the client's
          SyncTarget,   \* 10 measurements end ptpc_sync_loop
          AnnounceSeq,  \* sequence numbers of Announces
          MaxSync,      \* bound: sequence numbers there are
          LastSync,     \* the last one each server uses
          Wraps,        \* whether they are used over again
          Clock         \* bound: readings of the client's clock, from 0

ASSUME SessionAssumption ==
  /\ Server \subseteq Nat \ {0}
  /\ Flags \in [Server -> SUBSET {"TWO_STEP", "UNICAST"}]
  /\ Domain \in [Server -> Nat]
  /\ Shared \subseteq Server
  /\ Offset \in [Server -> Nat] /\ SyncTarget \in Nat /\ MaxSync \in Nat
  /\ LastSync \in [Server -> 1..MaxSync]
  /\ Clock \subseteq Nat
  /\ Wraps \in BOOLEAN /\ AnnounceSeq \subseteq 0..MaxSync

VARIABLES pc,          \* which poll of which loop is next
          time,        \* the client's clock
          event,       \* messages on their way to the event socket
          general,     \* messages on their way to the general socket
          requests,    \* sequence numbers of this client's Delay_Reqs under way
          srv,         \* each server: last sequence number, Follow_Up owed
          origin,      \* each server: when it sent each Sync, on its own clock
          sync_read,   \* history: when the client read the last Sync it took
          measured     \* history: the measurements counted, in order

clientVars == <<ptpc, sync, ret, pc, sync_read, measured>>
networkVars == <<event, general, requests, srv, origin>>
vars == <<clientVars, networkVars, time>>

Message(type, s, n, ts, req) ==
  [type |-> type, domain |-> Domain[s], flags |-> Flags[s], clockId |-> s,
   seqid |-> n, ts |-> ts, req |-> req]

ServerTime(s) == time + Offset[s]

-----------------------------------------------------------------------------
Init ==
  /\ ptpc = PtpcContext
  /\ sync = SyncContext(0)
  /\ ret = 0
  /\ pc = "announce"
  /\ time = 0
  /\ event = {}
  /\ general = {}
  /\ requests = {}
  /\ srv = [s \in Server |-> [seqid |-> 0, owes |-> FALSE]]
  /\ origin = [s \in Server |-> [n \in 1..MaxSync |-> 0]]
  /\ sync_read = 0
  /\ measured = <<>>

Tick ==
  /\ \E t \in Clock : t > time /\ time' = t
  /\ UNCHANGED <<clientVars, networkVars>>

(***************************************************************************)
(* Servers.                                                                *)
(***************************************************************************)
SendAnnounce(s, n) ==
  /\ general' = general \cup {Message("ANNOUNCE", s, n, 0, "all")}
  /\ UNCHANGED <<clientVars, event, requests, srv, origin, time>>

SendSync(s) ==
  /\ ~srv[s].owes
  /\ Wraps \/ srv[s].seqid < LastSync[s]
  /\ LET n == (srv[s].seqid % LastSync[s]) + 1
     IN  /\ event' = event \cup {Message("SYNC", s, n, 0, "all")}
         /\ srv' = [srv EXCEPT ![s] = [seqid |-> n, owes |-> TRUE]]
         /\ origin' = [origin EXCEPT ![s][n] = ServerTime(s)]
  /\ UNCHANGED <<clientVars, general, requests, time>>

SendFollowUp(s) ==
  /\ srv[s].owes
  /\ srv' = [srv EXCEPT ![s].owes = FALSE]
  /\ LET n == srv[s].seqid
     IN  general' = general \cup {Message("FOLLOW_UP", s, n, origin[s][n], "all")}
  /\ UNCHANGED <<clientVars, event, requests, origin, time>>

(* The Delay_Req is sent to the selected server's address. *)
Respond(n) ==
  /\ n \in requests
  /\ requests' = requests \ {n}
  /\ general' = general \cup
       {Message("DELAY_RESP", ptpc.ptp_server_id, n, ServerTime(ptpc.ptp_server_id), "self")}
  /\ UNCHANGED <<clientVars, event, srv, origin, time>>

(* The answer to another client that, like this one, numbers its Delay_Req *)
(* after the Sync.                                                         *)
RespondOther(s) ==
  /\ s \in Shared
  /\ srv[s].seqid # 0
  /\ general' = general \cup
       {Message("DELAY_RESP", s, srv[s].seqid, ServerTime(s), "other")}
  /\ UNCHANGED <<clientVars, event, requests, srv, origin, time>>

(***************************************************************************)
(* The client's loops.  left is what remains under way.  A message that    *)
(* stays in the set after a poll may be delivered again, and one that no   *)
(* poll picks is lost; a set has no order.  Both sockets are read into one *)
(* rxbuf, which an empty datagram leaves as it was: the general handler    *)
(* may also find a message of the event socket in it.                      *)
(***************************************************************************)
PollAnnounce(m, left) ==
  /\ pc = "announce"
  /\ ptpc_recv_announce_msg(m)
  /\ general' = left
  /\ pc' = IF ret' = 1 THEN "head" ELSE "announce"
  /\ UNCHANGED <<sync_read, measured, event, requests, srv, origin, time>>

(* Mutated form: one measurement too many is not noticed. *)
LoopHead_overruns ==
  /\ pc = "head"
  /\ sync' = [sync EXCEPT !.now = time]
  /\ pc' = IF sync.synced_count > SyncTarget THEN "done" ELSE "event"
  /\ UNCHANGED <<ptpc, ret, sync_read, measured, networkVars, time>>

LoopHead ==
  /\ pc = "head"
  /\ sync' = [sync EXCEPT !.now = time]
  /\ pc' = IF sync.synced_count = SyncTarget THEN "done" ELSE "event"
  /\ UNCHANGED <<ptpc, ret, sync_read, measured, networkVars, time>>

PollEvent(m, left) ==
  /\ pc = "event"
  /\ ptpc_recv_sync_msg(m, time)
  /\ event' = left
  /\ sync_read' = IF sync.state # sync'.state THEN time ELSE sync_read
  /\ pc' = IF ret' < 0 THEN "failed" ELSE "general"
  /\ UNCHANGED <<measured, general, requests, srv, origin, time>>

PollGeneral(m, left, sent) ==
  /\ pc = "general"
  /\ ptpc_recv_general_packet(m, time, sent)
  /\ general' = left
  /\ requests' = IF sync'.state # sync.state /\ sync'.state = "S_FOLLOW_UP" /\ sent = "ok"
                 THEN requests \cup {sync.seqid} ELSE requests
  /\ measured' = IF sync'.synced_count # sync.synced_count
                 THEN Append(measured, [server |-> m.clockId, seqid |-> m.seqid, req |-> m.req,
                                        t1 |-> sync'.t1, t2 |-> sync'.t2,
                                        t3 |-> sync'.t3, t4 |-> sync'.t4,
                                        sync_read |-> sync_read])
                 ELSE measured
  /\ pc' = IF ret' < 0 THEN "failed" ELSE "head"
  /\ UNCHANGED <<sync_read, event, srv, origin, time>>

-----------------------------------------------------------------------------
Servers ==
  \E s \in Server : \/ \E n \in AnnounceSeq : SendAnnounce(s, n)
                    \/ SendSync(s)
                    \/ SendFollowUp(s)
                    \/ RespondOther(s)

Polls ==
  \/ \E m \in general \cup {Nothing} : PollAnnounce(m, general)
  \/ \E m \in event \cup {Nothing, Failure} : PollEvent(m, event)
  \/ \E m \in general \cup event \cup {Nothing, Failure}, sent \in {"ok", "again", "error"} :
       PollGeneral(m, general, sent)

Next == Tick \/ Servers \/ (\E n \in requests : Respond(n)) \/ LoopHead \/ Polls

Spec == Init /\ [][Next]_vars

(***************************************************************************)
(* A server whose intervals are longer than an exchange takes, over a      *)
(* network that neither loses nor repeats: the next Sync or Announce is    *)
(* sent when the previous exchange is over, a Follow_Up when the Sync has  *)
(* been read, and every poll that could receive something does.  While the *)
(* client still waits for an Announce it leaves the Syncs unread.  Were a  *)
(* Sync and its Follow_Up to arrive together, between the poll of the      *)
(* event socket and that of the general one, the client would read them    *)
(* the wrong way round, and could do so for ever.                          *)
(***************************************************************************)
Idle(s) ==
  /\ general = {} /\ requests = {} /\ ~srv[s].owes
  /\ event = {} \/ pc = "announce"

Oldest(S) == IF S = {} THEN {Nothing} ELSE S

TimelyAnnounce(s) == Idle(s) /\ \E n \in AnnounceSeq : SendAnnounce(s, n)

TimelySync(s) == Idle(s) /\ SendSync(s)

TimelyFollowUp(s) == (event = {} \/ pc = "announce") /\ SendFollowUp(s)

TimelyRespond == \E n \in requests : Respond(n)

TimelyPolls ==
  \/ \E m \in Oldest(general) : PollAnnounce(m, general \ {m})
  \/ LoopHead
  \/ \E m \in Oldest(event) : PollEvent(m, event \ {m})
  \/ \E m \in Oldest(general) : PollGeneral(m, general \ {m}, "ok")

TimelyNext ==
  \/ \E s \in Server : TimelyAnnounce(s) \/ TimelySync(s) \/ TimelyFollowUp(s)
  \/ TimelyRespond
  \/ TimelyPolls

(* The client's thread is scheduled, and every server goes on sending.     *)
TimelySpec ==
  /\ Init /\ [][TimelyNext]_vars
  /\ \A s \in Server : /\ SF_vars(TimelyAnnounce(s))
                       /\ SF_vars(TimelySync(s))
                       /\ SF_vars(TimelyFollowUp(s))
  /\ WF_vars(TimelyRespond)
  /\ WF_vars(TimelyPolls)

-----------------------------------------------------------------------------
MessageType ==
  [type : {"ANNOUNCE", "SYNC", "FOLLOW_UP", "DELAY_RESP"}, domain : Nat,
   flags : SUBSET {"TWO_STEP", "UNICAST"}, clockId : Server, seqid : 0..MaxSync,
   ts : Nat, req : {"self", "other", "all"}]

TypeOK ==
  /\ sync \in SyncType(0..MaxSync)
  /\ sync.synced_count <= SyncTarget
  /\ ptpc \in PtpcType(Server \cup {0})
  /\ event \subseteq MessageType /\ general \subseteq MessageType
  /\ requests \subseteq 1..MaxSync
  /\ pc \in {"announce", "head", "event", "general", "done", "failed"}

(* What a measurement is made of, whatever the network lost, repeated or   *)
(* reordered, and although other servers use the same sequence numbers and *)
(* a Sync is taken from any of them.  t1 and t4 are of one server's clock, *)
(* the selected one's, and of one sequence number: t1 is when that server  *)
(* sent its Sync, t4 a later time, not in the future.  t2 and t3 are of    *)
(* the client's clock: t3 is not before the Sync was read, nor t2 before   *)
(* t3 - it is the time of a poll after the Delay_Req, not of the Sync.     *)
(* That t4 answers this client's Delay_Req, or comes after t3, is not      *)
(* said: see EachMeasured.                                                 *)
MeasuredCoherently ==
  \A k \in 1..Len(measured) :
    LET x == measured[k]
    IN  /\ x.server = ptpc.ptp_server_id
        /\ x.t1 = origin[x.server][x.seqid]
        /\ x.t1 <= x.t4 /\ x.t4 <= ServerTime(x.server)
        /\ x.sync_read <= x.t3 /\ x.t3 <= x.t2 /\ x.t2 <= time

Delay(k) == ptp_mean_path_delay(measured[k])

(* No delay comes out negative, so that comparing delays as unsigned       *)
(* numbers, as ptpc_recv_general_packet does, compares the delays, and the *)
(* best of them is the smallest.                                           *)
DelaysNotNegative == \A k \in 1..Len(measured) : Delay(k) >= 0

(* mean_path_delay and ptp_offset are those of one and the same            *)
(* measurement, and no measurement counted so far has a smaller delay;     *)
(* that is as long as none came out as 0, which the client takes for       *)
(* "none yet".                                                             *)
BestMeasurementKept ==
  (Len(measured) > 0 /\ \A k \in 1..Len(measured) : Delay(k) # 0) =>
    \E k \in 1..Len(measured) :
      /\ ptpc.mean_path_delay = Delay(k)
      /\ ptpc.ptp_offset = ptp_offset(Delay(k), measured[k])
      /\ \A j \in 1..Len(measured) : Delay(k) % U64 <= Delay(j) % U64

(* A client that is served on time synchronises, although it does not      *)
(* reset the exchange after a measurement and so spends the next Sync and  *)
(* Follow_Up on noticing that it is over.                                  *)
EventuallySynced == <>(pc = "done")

(* "the meanPathDelay is measured 10 times": every measurement counted is  *)
(* of an exchange of its own, answered to this client, and starts at the   *)
(* time its Sync was received.  Nothing tells an answer to another client, *)
(* or a repeated one, from a new one; and ptpc_recv_sync_msg sets t2 on    *)
(* every poll, so by the time the Delay_Resp is there t2 is the time of    *)
(* the last poll.  So this fails in each of its parts.                     *)
EachMeasured ==
  \A k \in 1..Len(measured) :
    /\ measured[k].req = "self"
    /\ \A j \in 1..k - 1 : measured[j].seqid # measured[k].seqid
    /\ measured[k].t2 = measured[k].sync_read
=============================================================================
