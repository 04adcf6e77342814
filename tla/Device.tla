------------------------------- MODULE Device -------------------------------
(***************************************************************************)
(* The life of a device: main() of rtpdump and tonegen creates the         *)
(* context, starts the network and the audio thread, waits for SIGINT,     *)
(* sets both stop flags, joins both threads and destroys the context       *)
(* (aoip_create_context, aoip_context_destroy, network_cb_run and          *)
(* audio_cb_run of lib/aoip.c with the sockets of ptpc.c, sap.c, rtp.c).   *)
(*                                                                         *)
(* The calls that acquire or give back something are written as sequences  *)
(* of <<operation, resource>>, in program order; main takes them one at a  *)
(* time, beside the two threads.  NetworkLoop says what the network thread *)
(* does while it runs, PlaybackPath and RecordPath what the audio thread   *)
(* does in its loop.                                                       *)
(***************************************************************************)
EXTENDS Integers, Sequences

CONSTANT SlotNum   \* DATA_QUEUE_SLOT_NUM

ASSUME DeviceAssumption == SlotNum \in Nat \ {0}

VARIABLES rtp_mode,        \* of the configuration, never changed
          main,            \* where main() is
          todo,            \* what is left of the create or the destroy call
          caught_signal,
          network_stop_flag, audio_stop_flag,
          net, audio,      \* where the threads are
          open,            \* file descriptors that are open
          member,          \* sockets that joined their multicast group
          slots,           \* slot buffers allocated
          device,          \* what the aoip_operations made of the device
          ao_failed        \* history: ao_open, ao_read, ao_write or ao_close failed

vars == <<rtp_mode, main, todo, caught_signal, network_stop_flag, audio_stop_flag, net,
          audio, open, member, slots, device, ao_failed>>

held == <<open, member, slots, device>>
flags == <<rtp_mode, network_stop_flag, audio_stop_flag>>
threads == <<net, audio, ao_failed>>

Socket == {"event", "general", "sap", "rtp"}

(* rtpdump is configured to receive, tonegen to send. *)
Receiving == rtp_mode = "RTP_MODE_RECV"

Joined == {"event", "general"} \cup (IF Receiving THEN {"rtp"} ELSE {})

-----------------------------------------------------------------------------
(* Creation. *)
ptpc_create_context ==
  << <<"socket", "event">>, <<"bind", "event">>, <<"option", "event">>,
     <<"option", "event">>, <<"join", "event">>,
     <<"socket", "general">>, <<"bind", "general">>, <<"option", "general">>,
     <<"join", "general">> >>

sap_create_context == << <<"socket", "sap">>, <<"option", "sap">> >>

rtp_create_context ==
  << <<"socket", "rtp">>, <<"option", "rtp">>, <<"option", "rtp">>,
     <<"option", "rtp">> >>
  \o (IF Receiving THEN << <<"bind", "rtp">>, <<"join", "rtp">> >> ELSE <<>>)

network_init == ptpc_create_context \o sap_create_context \o rtp_create_context

(* The array of slots, then each slot's buffer. *)
aoip_queue_init ==
  << <<"malloc", "slots">> >> \o [i \in 1..SlotNum |-> <<"calloc", "slots">>]

aoip_create_context ==
  network_init \o << <<"ao_init", "device">> >> \o aoip_queue_init

(* Destruction. *)

(* Mutated form: the general socket is forgotten. *)
ptpc_context_destroy_event_only == << <<"drop", "event">>, <<"close", "event">> >>

ptpc_context_destroy ==
  << <<"drop", "general">>, <<"close", "general">>,
     <<"drop", "event">>, <<"close", "event">> >>

sap_context_destroy == << <<"close", "sap">> >>

(* Mutated form: rtp_mode is not asked. *)
rtp_context_destroy_always_drops == << <<"drop", "rtp">>, <<"close", "rtp">> >>

rtp_context_destroy ==
  (IF Receiving THEN << <<"drop", "rtp">> >> ELSE <<>>) \o << <<"close", "rtp">> >>

network_device_release ==
  ptpc_context_destroy \o sap_context_destroy \o rtp_context_destroy

(* Mutated form: the loop over the slots runs once too often. *)
aoip_core_close_one_more ==
  [i \in 1..SlotNum + 1 |-> <<"free", "slots">>] \o << <<"free_array", "slots">> >>

aoip_core_close ==
  [i \in 1..SlotNum |-> <<"free", "slots">>] \o << <<"free_array", "slots">> >>

aoip_context_destroy ==
  << <<"ao_release", "device">> >> \o network_device_release \o aoip_core_close

-----------------------------------------------------------------------------
Init ==
  /\ rtp_mode \in {"RTP_MODE_RECV", "RTP_MODE_SEND"}
  /\ main = "create"
  /\ todo = aoip_create_context
  /\ caught_signal = FALSE
  /\ network_stop_flag = FALSE
  /\ audio_stop_flag = FALSE
  /\ net = "none"
  /\ audio = "none"
  /\ open = {}
  /\ member = {}
  /\ slots = -1        \* no array yet
  /\ device = "none"
  /\ ao_failed = FALSE

(* The process is there until main returns. *)
Alive == main \notin {"failed", "done"}

(* SIGINT, at any time once the handler is installed. *)
sig_handler ==
  /\ Alive
  /\ ~caught_signal
  /\ caught_signal' = TRUE
  /\ UNCHANGED <<main, todo, flags, threads, held>>

(***************************************************************************)
(* main() of rtpdump.c and tonegen.c.                                      *)
(***************************************************************************)

(* What a call of creation or destruction does when it succeeds. *)
Effect(op, r) ==
  /\ open' = CASE op \in {"socket", "ao_init"} -> open \cup {r}
               [] op \in {"close", "ao_release"} -> open \ {r}
               [] OTHER -> open
  /\ member' = CASE op = "join" -> member \cup {r}
                 [] op \in {"drop", "close"} -> member \ {r}
                 [] OTHER -> member
  /\ slots' = CASE op \in {"malloc", "calloc"} -> slots + 1
                [] op \in {"free", "free_array"} -> slots - 1
                [] OTHER -> slots
  /\ device' = CASE op = "ao_init" -> "ready"
                 [] op = "ao_release" -> "released"
                 [] OTHER -> device

Create ==
  /\ main = "create"
  /\ Effect(todo[1][1], todo[1][2])
  /\ todo' = Tail(todo)
  /\ main' = IF Len(todo) = 1 THEN "created" ELSE "create"
  /\ UNCHANGED <<caught_signal, flags, threads>>

(* A failed call ends the creation: main returns 1 and the process ends.   *)
(* aoip_bind closes its socket first; nothing else is given back.          *)
CreateFails ==
  /\ main = "create"
  /\ main' = "failed"
  /\ open' = IF todo[1][1] = "bind" THEN open \ {todo[1][2]} ELSE open
  /\ UNCHANGED <<todo, caught_signal, flags, threads, member, slots, device>>

StartNetwork ==
  /\ main = "created"
  /\ \/ net' = "running" /\ main' = "start_audio"
     \/ net' = net /\ main' = "failed"
  /\ UNCHANGED <<todo, caught_signal, flags, audio, ao_failed, held>>

(* A failure here ends the process under the running network thread. *)
StartAudio ==
  /\ main = "start_audio"
  /\ \/ audio' = "open" /\ main' = "wait"
     \/ audio' = audio /\ main' = "failed"
  /\ UNCHANGED <<todo, caught_signal, flags, net, ao_failed, held>>

Wait ==
  /\ main = "wait"
  /\ caught_signal
  /\ main' = "stop_net"
  /\ UNCHANGED <<todo, caught_signal, flags, threads, held>>

network_cb_stop ==
  /\ main = "stop_net"
  /\ network_stop_flag' = TRUE
  /\ main' = "stop_audio"
  /\ UNCHANGED <<rtp_mode, todo, caught_signal, audio_stop_flag, threads, held>>

(* Mutated form: the audio thread is not told. *)
audio_cb_stop_skipped ==
  /\ main = "stop_audio"
  /\ main' = "join_net"
  /\ UNCHANGED <<todo, caught_signal, flags, threads, held>>

audio_cb_stop ==
  /\ main = "stop_audio"
  /\ audio_stop_flag' = TRUE
  /\ main' = "join_net"
  /\ UNCHANGED <<rtp_mode, todo, caught_signal, network_stop_flag, threads, held>>

(* Mutated form: the flag is set back for another run. *)
JoinNetwork_rearms ==
  /\ main = "join_net"
  /\ net = "ended"
  /\ network_stop_flag' = FALSE
  /\ main' = "join_audio"
  /\ UNCHANGED <<rtp_mode, todo, caught_signal, audio_stop_flag, threads, held>>

(* pthread_join(ntth).  Its error return is for a thread that cannot be    *)
(* joined or was joined before: each thread is created joinable and joined *)
(* here once.                                                              *)
JoinNetwork ==
  /\ main = "join_net"
  /\ net = "ended"
  /\ main' = "join_audio"
  /\ UNCHANGED <<todo, caught_signal, flags, threads, held>>

(* Mutated form: the audio thread is not waited for. *)
JoinAudio_detached ==
  /\ main = "join_audio"
  /\ todo' = aoip_context_destroy
  /\ main' = "destroy"
  /\ UNCHANGED <<caught_signal, flags, threads, held>>

(* pthread_join(aoth); for its error return see JoinNetwork. *)
JoinAudio ==
  /\ main = "join_audio"
  /\ audio = "ended"
  /\ todo' = aoip_context_destroy
  /\ main' = "destroy"
  /\ UNCHANGED <<caught_signal, flags, threads, held>>

(* A group that could not be left is only logged; closing the socket       *)
(* leaves the group in any case.  ao_release of both programs returns 0.   *)
Destroy ==
  /\ main = "destroy"
  /\ \/ Effect(todo[1][1], todo[1][2])
     \/ todo[1][1] = "drop" /\ UNCHANGED held
  /\ todo' = Tail(todo)
  /\ main' = IF Len(todo) = 1 THEN "done" ELSE "destroy"
  /\ UNCHANGED <<caught_signal, flags, threads>>

(***************************************************************************)
(* The threads.                                                            *)
(***************************************************************************)

(* network_loop returns because of the flag, or for a reason of its own. *)
NetworkStops ==
  /\ Alive
  /\ net = "running"
  /\ network_stop_flag
  /\ net' = "ended"
  /\ UNCHANGED <<main, todo, caught_signal, flags, audio, ao_failed, held>>

NetworkFails ==
  /\ Alive
  /\ net = "running"
  /\ net' = "ended"
  /\ UNCHANGED <<main, todo, caught_signal, flags, audio, ao_failed, held>>

(* audio_cb_run: ao_open, *)
AudioOpen ==
  /\ Alive
  /\ audio = "open"
  /\ \/ audio' = "loop" /\ device' = "open" /\ UNCHANGED ao_failed
     \/ audio' = "ended" /\ ao_failed' = TRUE /\ UNCHANGED device
  /\ UNCHANGED <<main, todo, caught_signal, flags, net, open, member, slots>>

(* audio_record_loop or audio_playback_loop until the flag, *)
AudioStops ==
  /\ Alive
  /\ audio = "loop"
  /\ audio_stop_flag
  /\ audio' = "close"
  /\ UNCHANGED <<main, todo, caught_signal, flags, net, ao_failed, held>>

(* Mutated form: the device is not closed when the loop ends. *)
AudioClose_skipped ==
  /\ Alive
  /\ audio = "close"
  /\ audio' = "ended"
  /\ UNCHANGED <<main, todo, caught_signal, flags, net, ao_failed, held>>

(* ao_close; *)
AudioClose ==
  /\ Alive
  /\ audio = "close"
  /\ audio' = "ended"
  /\ \/ device' = "closed" /\ UNCHANGED ao_failed
     \/ ao_failed' = TRUE /\ UNCHANGED device
  /\ UNCHANGED <<main, todo, caught_signal, flags, net, open, member, slots>>

(* Mutated form: the device is opened again. *)
AudioFails_reopens ==
  /\ Alive
  /\ audio = "loop"
  /\ audio' = "open"
  /\ ao_failed' = TRUE
  /\ UNCHANGED <<main, todo, caught_signal, flags, net, held>>

(* or until ao_read or ao_write fails: audio_cb_run returns at once. *)
AudioFails ==
  /\ Alive
  /\ audio = "loop"
  /\ audio' = "ended"
  /\ ao_failed' = TRUE
  /\ UNCHANGED <<main, todo, caught_signal, flags, net, held>>

-----------------------------------------------------------------------------
Main ==
  \/ Create \/ CreateFails
  \/ StartNetwork \/ StartAudio
  \/ Wait \/ network_cb_stop \/ audio_cb_stop
  \/ JoinNetwork \/ JoinAudio
  \/ Destroy

Threads ==
  \/ NetworkStops \/ NetworkFails
  \/ AudioOpen \/ AudioStops \/ AudioClose \/ AudioFails

Next == Main \/ Threads \/ sig_handler

(* main and the threads are scheduled, and network_loop looks at the flag  *)
(* again and again (StopEnds of NetworkLoop).                              *)
Fairness ==
  /\ WF_vars(Main)
  /\ WF_vars(NetworkStops)
  /\ WF_vars(AudioOpen \/ AudioStops \/ AudioClose)

Spec == Init /\ [][Next]_vars /\ Fairness

-----------------------------------------------------------------------------
Step == {"socket", "bind", "option", "join", "ao_init", "malloc", "calloc",
         "ao_release", "drop", "close", "free", "free_array"}

TypeOK ==
  /\ rtp_mode \in {"RTP_MODE_RECV", "RTP_MODE_SEND"}
  /\ main \in {"create", "created", "start_audio", "wait", "stop_net", "stop_audio",
               "join_net", "join_audio", "destroy", "done", "failed"}
  /\ todo \in Seq(Step \X (Socket \cup {"device", "slots"}))
  /\ {caught_signal, network_stop_flag, audio_stop_flag, ao_failed} \subseteq BOOLEAN
  /\ net \in {"none", "running", "ended"}
  /\ audio \in {"none", "open", "loop", "close", "ended"}
  /\ open \subseteq Socket \cup {"device"}
  /\ member \subseteq open
  /\ slots \in -1 .. SlotNum
  /\ device \in {"none", "ready", "open", "closed", "released"}

(* No thread runs on a context that is not whole: while network_loop or    *)
(* audio_cb_run is running, all sockets are open and in their groups, the  *)
(* device is not released and every slot has its buffer - destruction      *)
(* waits for both threads, whatever made them end.                         *)
ThreadsHaveContext ==
  Alive /\ (net = "running" \/ audio \in {"open", "loop", "close"}) =>
    /\ open = Socket \cup {"device"}
    /\ member = Joined
    /\ slots = SlotNum

(* What destruction gives back is there to be given back: no socket is     *)
(* closed twice, no group left that was not joined, nothing freed twice.   *)
(* rtp_context_destroy asks rtp_mode as rtp_create_context did.            *)
GivenBackOnce ==
  main = "destroy" =>
    LET r == todo[1][2]
    IN  CASE todo[1][1] \in {"close", "ao_release"} -> r \in open
          [] todo[1][1] = "drop" -> r \in member
          [] todo[1][1] = "free" -> slots > 0
          [] todo[1][1] = "free_array" -> slots = 0

(* After aoip_context_destroy nothing that aoip_create_context acquired is *)
(* left.                                                                   *)
NothingLeft ==
  main = "done" => open = {} /\ member = {} /\ slots = -1

(* A device that was opened is closed before ao_release, unless one of its *)
(* own callbacks failed.                                                   *)
ClosedUnlessFailed ==
  main = "destroy" /\ ~ao_failed => device \notin {"ready", "open"}

(* After SIGINT never does everyone wait for everyone: when main is in a   *)
(* pthread_join, the thread it waits for has ended, or has something left  *)
(* to do that nothing holds up.  A thread that loops until its flag is set *)
(* is joined after the flag only, and no flag is set back.                 *)
SomeoneGoesOn ==
  caught_signal /\ Alive =>
    /\ main = "join_net" => net = "ended" \/ (net = "running" /\ network_stop_flag)
    /\ main = "join_audio" =>
         audio \in {"open", "close", "ended"} \/ (audio = "loop" /\ audio_stop_flag)

(* A bound on the steps main has before it: every call of the creation and *)
(* of the destruction, and what lies between them; *)
MainOrder ==
  [created |-> 7, start_audio |-> 6, wait |-> 5, stop_net |-> 4, stop_audio |-> 3,
   join_net |-> 2, join_audio |-> 1]

MainLeft ==
  CASE main = "create" -> Len(todo) + Len(aoip_context_destroy) + 7
    [] main \in DOMAIN MainOrder -> Len(aoip_context_destroy) + MainOrder[main]
    [] main = "destroy" -> Len(todo)
    [] OTHER -> 0

(* those of the threads, and the one signal that counts. *)
NetLeft == [none |-> 2, running |-> 1, ended |-> 0][net]

AudioLeft == [none |-> 4, open |-> 3, loop |-> 2, close |-> 1, ended |-> 0][audio]

SignalLeft == IF caught_signal THEN 0 ELSE 1

LifeLeft == MainLeft + NetLeft + AudioLeft + SignalLeft

(* Nothing in the life of the process is done over: whatever fails, and    *)
(* whenever SIGINT comes, every step of main and of the threads brings the *)
(* end nearer.  A second SIGINT, a thread that has ended by itself and a   *)
(* call that fails while the context is destroyed start nothing again.     *)
LifeCountsDown == [][LifeLeft' < LifeLeft]_vars

(* SIGINT ends the process, wherever main and the threads are then, and    *)
(* also when a thread has ended before.                                    *)
SignalEnds == caught_signal ~> ~Alive
=============================================================================
