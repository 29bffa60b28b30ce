----------------------------- MODULE TwampProbe -----------------------------
(***************************************************************************)
(* One measurement of one peer: the sender (TwampLightSender::run of       *)
(* twamp-light, or measure_twamp_light of twamp_daemon.py), the reflector  *)
(* and the network between them.                                           *)
(*                                                                         *)
(* Both senders do the same thing: send a probe, wait for one datagram     *)
(* until a timeout, take it for the answer, pause, and go on to the next   *)
(* probe over the same socket.  Neither looks at the sequence number, so   *)
(* a reply that comes too late for its own probe answers a later one.      *)
(* They differ in how a round trip is timed: the C++ sender subtracts the  *)
(* time stamp the reply brings back, read from a clock that can be set;    *)
(* the Python one subtracts the time of the latest send, read from a       *)
(* monotonic clock.                                                        *)
(*                                                                         *)
(* Time is counted in ticks and passes while the sender waits or pauses:   *)
(* what it does in between takes no time.  The network loses, delays,      *)
(* reorders and duplicates datagrams.  All datagrams have the 20 bytes     *)
(* both sides send.                                                        *)
(***************************************************************************)
EXTENDS Integers, Sequences, Functions

CONSTANTS
    Tools,          \* the senders to look at: "cpp", "python"
    num_packets,
    timeout,        \* in ticks
    interval,       \* the pause after an answered probe, in ticks
    Modulus,        \* 2^64: the C++ sender subtracts unsigned numbers
    Copied,         \* bound: the probes whose reply the network may duplicate, once
    Steps           \* how far the settable clock may be set, once

ASSUME ProbeAssumption ==
    /\ Tools \subseteq {"cpp", "python"}
    /\ num_packets \in Nat
    /\ timeout \in Nat \ {0}
    /\ interval \in Nat
    /\ Modulus \in Nat \ {0}
    /\ Steps \subseteq Nat

Probes == 1 .. num_packets

Datagram == [probe : Probes, copy : BOOLEAN]

VARIABLES
    tool,
    now,            \* the time, which is also the monotonic clock
    offset,         \* what the settable clock is ahead of it
    pc,             \* "send", "wait", "sleep", "done", "failed"
    probe,          \* the probe the sender is at
    wake,           \* when the wait or the pause ends
    stamp,          \* the sender's time stamp in each probe
    sent,           \* history: when each probe was sent
    probes,         \* datagrams on their way to the reflector
    replies,        \* datagrams on their way back
    socket,         \* datagrams waiting in the sender's socket
    samples,        \* rtts_ms, with the reply each was computed from
    late,           \* history: a reply was there when its probe had been given up
    copied          \* history: the probes whose reply was duplicated

clock == <<now, offset>>
network == <<probes, replies, copied>>
sender == <<pc, probe, wake, stamp, sent, samples>>
vars == <<tool, clock, sender, network, socket, late>>

\* get_current_time_ns
get_current_time_ns == (now + offset) % Modulus

Init ==
    /\ tool \in Tools
    /\ now = 0
    /\ offset = 0
    /\ pc = IF num_packets = 0 THEN "done" ELSE "send"
    /\ probe = 1
    /\ wake = 0
    /\ stamp = [p \in Probes |-> 0]
    /\ sent = [p \in Probes |-> 0]
    /\ probes = {}
    /\ replies = {}
    /\ socket = <<>>
    /\ samples = <<>>
    /\ late = FALSE
    /\ copied = {}

Running == pc \notin {"done", "failed"}

-----------------------------------------------------------------------------
(* The sender.                                                             *)

\* faulty variant: the loop runs once too often
OneProbeTooMany ==
    IF probe = num_packets + 1
    THEN pc' = "done" /\ UNCHANGED probe
    ELSE pc' = "send" /\ probe' = probe + 1

\* `continue', or the end of the loop's body
NextProbe ==
    IF probe = num_packets
    THEN pc' = "done" /\ UNCHANGED probe
    ELSE pc' = "send" /\ probe' = probe + 1

Send ==
    /\ pc = "send"
    /\ stamp' = [stamp EXCEPT ![probe] = get_current_time_ns]
    /\ sent' = [sent EXCEPT ![probe] = now]
    /\ probes' = probes \cup {[probe |-> probe, copy |-> FALSE]}
    /\ pc' = "wait"
    /\ wake' = now + timeout
    /\ UNCHANGED <<tool, clock, probe, samples, replies, copied, socket, late>>

\* sendto or recvfrom fails: the C++ sender goes on with the next probe, the
\* Python one gives the measurement up
Fail ==
    /\ pc \in {"send", "wait"}
    /\ IF tool = "cpp" THEN NextProbe ELSE pc' = "failed" /\ UNCHANGED probe
    /\ late' = (late \/ socket # <<>>)
    /\ UNCHANGED <<tool, clock, wake, stamp, sent, samples, network, socket>>

\* faulty variant: both senders time the latest send
SinceLastSend(p) == now - sent[probe]

\* the round trip, as computed when a reply to probe p is read
Elapsed(p) ==
    IF tool = "cpp"
    THEN (get_current_time_ns - stamp[p]) % Modulus
    ELSE now - sent[probe]

\* faulty variant: the datagram is only peeked at and stays in the socket
ReceivePeeks ==
    /\ pc = "wait"
    /\ socket # <<>>
    /\ LET p == Head(socket).probe
       IN  samples' = Append(samples, [probe |-> p, during |-> probe,
                                       value |-> Elapsed(p),
                                       rtt |-> Head(socket).at - sent[p]])
    /\ IF probe = num_packets
       THEN pc' = "done" /\ UNCHANGED <<probe, wake>>
       ELSE pc' = "sleep" /\ wake' = now + interval /\ UNCHANGED probe
    /\ UNCHANGED <<tool, clock, stamp, sent, network, socket, late>>

\* recvfrom returns the oldest datagram of the socket
Receive ==
    /\ pc = "wait"
    /\ socket # <<>>
    /\ LET p == Head(socket).probe
       IN  samples' = Append(samples, [probe |-> p, during |-> probe,
                                       value |-> Elapsed(p),
                                       rtt |-> Head(socket).at - sent[p]])
    /\ socket' = Tail(socket)
    /\ IF probe = num_packets
       THEN pc' = "done" /\ UNCHANGED <<probe, wake>>
       ELSE pc' = "sleep" /\ wake' = now + interval /\ UNCHANGED probe
    /\ UNCHANGED <<tool, clock, stamp, sent, network, late>>

\* faulty variant: the timeout is looked at before the socket
TimedOutUnread ==
    /\ pc = "wait"
    /\ now >= wake
    /\ NextProbe
    /\ UNCHANGED <<tool, clock, wake, stamp, sent, samples, network, socket, late>>

\* faulty variant: the wait is taken up again although its time is over
TimedOutAgain ==
    /\ pc = "wait"
    /\ socket = <<>>
    /\ now >= wake
    /\ UNCHANGED vars

\* nothing came: the next probe is sent without a pause
TimedOut ==
    /\ pc = "wait"
    /\ socket = <<>>
    /\ now >= wake
    /\ NextProbe
    /\ UNCHANGED <<tool, clock, wake, stamp, sent, samples, network, socket, late>>

Awake ==
    /\ pc = "sleep"
    /\ now >= wake
    /\ NextProbe
    /\ UNCHANGED <<tool, clock, wake, stamp, sent, samples, network, socket, late>>

-----------------------------------------------------------------------------
(* The reflector, the network and the clocks.                              *)

\* the reflector sends every probe back with its time stamp
Reflect ==
    \E d \in probes :
        /\ Running
        /\ probes' = probes \ {d}
        /\ replies' = replies \cup {d}
        /\ UNCHANGED <<tool, clock, sender, copied, socket, late>>

\* a reply reaches the sender's socket
Deliver ==
    \E d \in replies :
        /\ Running
        /\ replies' = replies \ {d}
        /\ socket' = Append(socket, [probe |-> d.probe, at |-> now])
        /\ late' = (late \/ d.probe # probe \/ pc # "wait")
        /\ UNCHANGED <<tool, clock, sender, probes, copied>>

Lose ==
    /\ Running
    /\ \/ \E d \in probes : probes' = probes \ {d} /\ UNCHANGED replies
       \/ \E d \in replies : replies' = replies \ {d} /\ UNCHANGED probes
    /\ UNCHANGED <<tool, clock, sender, copied, socket, late>>

Duplicate ==
    /\ Running
    /\ \E d \in replies :
           /\ d.probe \in Copied \ copied
           /\ replies' = replies \cup {[d EXCEPT !.copy = TRUE]}
           /\ copied' = copied \cup {d.probe}
    /\ UNCHANGED <<tool, clock, sender, probes, socket, late>>

\* the sender has something to do
Able ==
    \/ pc = "send"
    \/ pc = "wait" /\ (socket # <<>> \/ now >= wake)
    \/ pc = "sleep" /\ now >= wake

Tick ==
    /\ Running
    /\ ~Able
    /\ now' = now + 1
    /\ UNCHANGED <<tool, offset, sender, network, socket, late>>

\* high_resolution_clock is the system's clock: somebody sets it
SetClock ==
    /\ offset = 0
    /\ Running
    /\ \E s \in Steps : offset' \in {s, - s} \ {0}
    /\ UNCHANGED <<tool, now, sender, network, socket, late>>

Sender == Send \/ Fail \/ Receive \/ TimedOut \/ Awake

Network == Reflect \/ Deliver \/ Lose \/ Duplicate

Next == Sender \/ Network \/ Tick \/ SetClock

\* The sender is scheduled and time goes on; nothing is assumed of the
\* network, of the reflector, or of sendto and recvfrom failing.
Fairness == WF_vars(Send \/ Receive \/ TimedOut \/ Awake) /\ WF_vars(Tick)

Spec == Init /\ [][Next]_vars /\ Fairness

-----------------------------------------------------------------------------
(* Properties.                                                             *)

Sample == [probe : Probes, during : Probes, value : Int, rtt : Nat]

\* The variables stay in their ranges; the sender never keeps more samples
\* than it sent probes.
TypeOK ==
    /\ tool \in Tools
    /\ now \in Nat
    /\ offset \in Int
    /\ pc \in {"send", "wait", "sleep", "done", "failed"}
    /\ probe \in 1 .. num_packets + 1
    /\ wake \in Nat
    /\ stamp \in [Probes -> Nat]
    /\ sent \in [Probes -> Nat]
    /\ probes \subseteq Datagram
    /\ replies \subseteq Datagram
    /\ socket \in Seq([probe : Probes, at : Nat])
    /\ samples \in Seq(Sample) /\ Len(samples) <= num_packets
    /\ late \in BOOLEAN
    /\ copied \subseteq Probes

\* A sample never makes the peer look nearer than it is: it is at least the
\* round trip of the reply it was computed from.  For the C++ sender unless
\* its clock is set (or wraps round), even if the reply answers an earlier
\* probe; for the Python one as long as no reply comes late or twice.
NeverUnderestimated ==
    \A s \in Range(samples) :
        (IF tool = "cpp" THEN offset = 0 /\ now < Modulus ELSE ~late /\ copied = {}) => s.value >= s.rtt

\* As long as every reply comes while its probe is waited for, and none comes
\* twice, each sample is of the probe it was taken for.
SampleMatchesProbe ==
    ~late /\ copied = {} => \A s \in Range(samples) : s.probe = s.during

\* The loss that is reported (num_packets - rtts_ms.size()) is no less than
\* the number of probes without a reply, unless the network duplicates.
LossNotUnderstated ==
    copied = {} => \A i, j \in DOMAIN samples : samples[i].probe = samples[j].probe => i = j

\* A measurement ends, whatever the network does: a wait is bounded by the
\* timeout, and a late reply does not make it longer.
RunEnds == <>~Running

=============================================================================
