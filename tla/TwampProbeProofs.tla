-------------------------- MODULE TwampProbeProofs --------------------------
(***************************************************************************)
(* What a measurement reports, for any number of probes, any timeout and   *)
(* interval, and whatever the network does with the datagrams.             *)
(***************************************************************************)
EXTENDS TwampProbe, SequenceTheorems, TLAPS

Received == [probe : Probes, at : Nat]

\* The variables stay in their ranges.
Typed ==
    /\ tool \in Tools
    /\ now \in Nat
    /\ offset \in Int
    /\ pc \in {"send", "wait", "sleep", "done", "failed"}
    /\ probe \in 1 .. num_packets + 1
    /\ Running => probe \in Probes
    /\ wake \in Nat
    /\ stamp \in [Probes -> Nat]
    /\ sent \in [Probes -> Nat]
    /\ probes \subseteq Datagram
    /\ replies \subseteq Datagram
    /\ socket \in Seq(Received)
    /\ samples \in Seq(Sample)
    /\ copied \subseteq Probes

\* A probe that has not been sent is nowhere, and nothing is stamped or
\* received in the future.
Causal ==
    /\ \A p \in Probes : sent[p] <= now
    /\ \A d \in probes \cup replies : d.probe <= probe /\ (pc = "send" => d.probe < probe)
    /\ \A i \in DOMAIN socket :
           /\ socket[i].probe <= probe /\ (pc = "send" => socket[i].probe < probe)
           /\ sent[socket[i].probe] <= socket[i].at
           /\ socket[i].at <= now
    /\ \A i \in DOMAIN samples :
           samples[i].probe <= probe /\ (pc = "send" => samples[i].probe < probe)

\* A probe is in one place only: with the network, in the socket or among the
\* samples.
Apart ==
    /\ \A d \in probes \cup replies : d.copy = FALSE
    /\ \A d \in probes : \A e \in replies : d.probe # e.probe
    /\ \A d \in probes \cup replies :
           /\ \A i \in DOMAIN socket : socket[i].probe # d.probe
           /\ \A i \in DOMAIN samples : samples[i].probe # d.probe
    /\ \A i, j \in DOMAIN socket : socket[i].probe = socket[j].probe => i = j
    /\ \A i \in DOMAIN socket : \A j \in DOMAIN samples : socket[i].probe # samples[j].probe
    /\ \A i, j \in DOMAIN samples : samples[i].probe = samples[j].probe => i = j

\* That is so as long as nothing is duplicated.
InOnePlace == copied = {} => Apart

\* As long as no reply is late either, the socket holds nothing but the
\* answer to the probe that is waited for.
InTime ==
    ~late /\ copied = {} =>
        /\ \A i \in DOMAIN socket : pc = "wait" /\ socket[i].probe = probe
        /\ \A i \in DOMAIN samples : samples[i].probe = samples[i].during

\* As long as the clock is not set and does not wrap round, a time stamp is
\* the time of the send.
Stamped == offset = 0 /\ now < Modulus => stamp = sent

\* The samples are counted by the probes.
Counted ==
    /\ Len(samples) <= num_packets
    /\ pc \in {"send", "wait"} => Len(samples) < probe
    /\ pc = "sleep" => Len(samples) <= probe /\ probe < num_packets

\* No sample is below the round trip it stands for.
Honest ==
    \A i \in DOMAIN samples :
        (IF tool = "cpp" THEN offset = 0 /\ now < Modulus ELSE ~late /\ copied = {})
            => samples[i].value >= samples[i].rtt

IInv == Typed /\ Causal /\ InOnePlace /\ InTime /\ Stamped /\ Counted /\ Honest

\* The first probe is about to be sent, nothing has been received.
LEMMA InitIInv == Init => IInv
<1> SUFFICES ASSUME Init PROVE IInv
  OBVIOUS
<1> USE ProbeAssumption
<1>1. Typed
  <2>1. socket \in Seq(Received) /\ samples \in Seq(Sample)
    BY DEF Init
  <2>2. stamp \in [Probes -> Nat] /\ sent \in [Probes -> Nat]
    BY DEF Init
  <2>3. Running => probe \in Probes
    BY DEF Init, Running, Probes
  <2>4. QED
    BY <2>1, <2>2, <2>3 DEF Init, Typed
<1>2. Causal /\ InOnePlace /\ InTime /\ Stamped /\ Counted /\ Honest
  BY DEF Init, Causal, InOnePlace, Apart, InTime, Stamped, Counted, Honest, Probes
<1>3. QED
  BY <1>1, <1>2 DEF IInv

\* An unsigned number below the modulus is itself.
LEMMA BelowModulus == ASSUME NEW n \in Nat, NEW m \in Nat \ {0}, n < m PROVE (n + 0) % m = n /\ n % m = n
  OBVIOUS

\* sendto: the probe is new to every place.
LEMMA SendStep == ASSUME IInv, Send PROVE IInv'
<1> USE ProbeAssumption
<1>1. /\ pc = "send" /\ pc' = "wait" /\ probe' = probe /\ probe \in Probes
      /\ stamp' = [stamp EXCEPT ![probe] = get_current_time_ns]
      /\ sent' = [sent EXCEPT ![probe] = now]
      /\ probes' = probes \cup {[probe |-> probe, copy |-> FALSE]}
      /\ wake' = now + timeout
      /\ UNCHANGED <<tool, now, offset, samples, replies, copied, socket, late>>
  BY DEF IInv, Typed, Running, Send, clock
<1>2. get_current_time_ns \in Nat
  BY DEF IInv, Typed, get_current_time_ns
<1>3. Typed'
  <2>1. stamp' \in [Probes -> Nat] /\ sent' \in [Probes -> Nat]
    BY <1>1, <1>2 DEF IInv, Typed
  <2>2. [probe |-> probe, copy |-> FALSE] \in Datagram
    BY <1>1, Zenon DEF Datagram
  <2>3. wake' \in Nat
    BY <1>1 DEF IInv, Typed
  <2>4. probes' \subseteq Datagram
    <3>1. probes \subseteq Datagram
      BY DEF IInv, Typed
    <3>2. QED
      BY <1>1, <2>2, <3>1, Zenon
  <2>5. QED
    BY <1>1, <2>1, <2>3, <2>4 DEF IInv, Typed, Running
<1>4. Causal'
  <2>1. \A p \in Probes : sent'[p] <= now'
    BY <1>1 DEF IInv, Typed, Causal
  <2>2. \A i \in DOMAIN socket :
            /\ socket[i].probe <= probe /\ sent'[socket[i].probe] = sent[socket[i].probe]
            /\ sent[socket[i].probe] <= socket[i].at /\ socket[i].at <= now
    <3> SUFFICES ASSUME NEW i \in DOMAIN socket
                 PROVE  /\ socket[i].probe <= probe /\ sent'[socket[i].probe] = sent[socket[i].probe]
                        /\ sent[socket[i].probe] <= socket[i].at /\ socket[i].at <= now
      OBVIOUS
    <3>1. socket[i] \in Received
      BY DEF IInv, Typed
    <3>2. socket[i].probe \in Probes /\ socket[i].probe < probe
      BY <1>1, <3>1 DEF IInv, Causal, Received
    <3>3. socket[i].probe # probe
      BY <1>1, <3>2 DEF Probes
    <3>4. sent'[socket[i].probe] = sent[socket[i].probe]
      <4>1. sent \in [Probes -> Nat]
        BY SMTT(30) DEF IInv, Typed
      <4>2. QED
        BY <1>1, <3>2, <3>3, <4>1
    <3>5. QED
      BY <3>4 DEF IInv, Causal
  <2>3. \A d \in probes' \cup replies' : d.probe <= probe
    BY <1>1 DEF IInv, Typed, Causal, Datagram, Probes
  <2>4. \A i \in DOMAIN samples : samples[i].probe <= probe
    BY <1>1 DEF IInv, Causal
  <2>5. /\ \A p \in Probes : sent'[p] <= now'
        /\ \A d \in probes' \cup replies' : d.probe <= probe' /\ (pc' = "send" => d.probe < probe')
        /\ \A i \in DOMAIN samples' :
               samples'[i].probe <= probe' /\ (pc' = "send" => samples'[i].probe < probe')
    BY <1>1, <2>1, <2>3, <2>4
  <2>6. \A i \in DOMAIN socket' :
            /\ socket'[i].probe <= probe' /\ (pc' = "send" => socket'[i].probe < probe')
            /\ sent'[socket'[i].probe] <= socket'[i].at
            /\ socket'[i].at <= now'
    BY <1>1, <2>2
  <2>7. QED
    BY <2>5, <2>6 DEF Causal
<1>5. InOnePlace'
  <2> DEFINE new == [probe |-> probe, copy |-> FALSE]
  <2>1. /\ \A d \in replies : d.probe # probe
        /\ \A i \in DOMAIN socket : socket[i].probe # probe
        /\ \A i \in DOMAIN samples : samples[i].probe # probe
    BY <1>1 DEF IInv, Typed, Causal
  <2>2. new.probe = probe /\ new.copy = FALSE /\ probes' = probes \cup {new}
    BY <1>1
  <2> HIDE DEF new
  <2>3. QED
    BY <1>1, <2>1, <2>2 DEF IInv, InOnePlace, Apart
<1>6. InTime'
  <2>1. late' = late /\ copied' = copied /\ socket' = socket /\ samples' = samples
    BY <1>1
  <2>2. QED
    BY <1>1, <2>1 DEF IInv, InTime
<1>7. Stamped'
  <2> SUFFICES ASSUME offset = 0, now < Modulus PROVE stamp' = sent'
    BY <1>1 DEF Stamped
  <2>1. get_current_time_ns = now
    <3>1. now \in Nat /\ Modulus \in Nat \ {0}
      BY DEF IInv, Typed
    <3>2. (now + 0) % Modulus = now
      BY <3>1, BelowModulus
    <3>3. QED
      BY <3>2 DEF get_current_time_ns
  <2>2. QED
    BY <1>1, <2>1 DEF IInv, Stamped
<1>8. Counted' /\ Honest'
  BY <1>1 DEF IInv, Counted, Honest
<1>9. QED
  BY <1>3, <1>4, <1>5, <1>6, <1>7, <1>8 DEF IInv

\* The sender goes on, or gives up: no probe and no reply moves.
LEMMA AdvanceStep ==
    ASSUME IInv, Running, NextProbe \/ (pc' = "failed" /\ probe' = probe),
           UNCHANGED <<tool, clock, wake, stamp, sent, samples, network, socket>>,
           ~late' /\ copied = {} => ~late /\ socket = <<>>
    PROVE  IInv'
<1> USE ProbeAssumption
<1>1. UNCHANGED <<tool, now, offset, wake, stamp, sent, samples, probes, replies, copied, socket>>
  BY DEF clock, network
<1>2. probe \in Probes /\ pc \in {"send", "wait", "sleep"}
  BY DEF IInv, Typed, Running
<1>3. \/ pc' \in {"done", "failed"} /\ probe' = probe
      \/ pc' = "send" /\ probe' = probe + 1 /\ probe' \in Probes
  BY <1>2 DEF NextProbe, Probes
<1>4. Typed'
  <2>1. probe' \in 1 .. num_packets + 1 /\ (Running' => probe' \in Probes)
    BY <1>2, <1>3 DEF Running, Probes
  <2>2. QED
    BY <1>1, <1>3, <2>1 DEF IInv, Typed
<1>5. Causal'
  <2>1. \A d \in probes \cup replies : d.probe \in Int /\ d.probe <= probe
    BY DEF IInv, Typed, Causal, Datagram, Probes
  <2>2. \A i \in DOMAIN socket : socket[i].probe \in Int /\ socket[i].probe <= probe
    <3>1. \A i \in DOMAIN socket : socket[i] \in Received
      BY DEF IInv, Typed
    <3>2. QED
      BY <3>1 DEF IInv, Causal, Received, Probes
  <2>3. \A i \in DOMAIN samples : samples[i].probe \in Int /\ samples[i].probe <= probe
    <3>1. \A i \in DOMAIN samples : samples[i] \in Sample
      BY DEF IInv, Typed
    <3>2. QED
      BY <3>1 DEF IInv, Causal, Sample, Probes
  <2>4. probe \in Int
    BY <1>2 DEF Probes
  <2>5. /\ \A d \in probes' \cup replies' : d.probe <= probe' /\ (pc' = "send" => d.probe < probe')
        /\ \A i \in DOMAIN socket' :
               socket'[i].probe <= probe' /\ (pc' = "send" => socket'[i].probe < probe')
        /\ \A i \in DOMAIN samples' :
               samples'[i].probe <= probe' /\ (pc' = "send" => samples'[i].probe < probe')
    BY <1>1, <1>3, <2>1, <2>2, <2>3, <2>4
  <2>6. QED
    BY <1>1, <2>5 DEF IInv, Causal
<1>6. InOnePlace'
  BY <1>1 DEF IInv, InOnePlace, Apart
<1>7. InTime'
  BY <1>1 DEF IInv, InTime
<1>8. Stamped' /\ Counted'
  <2>1. Len(samples) \in Nat
    BY DEF IInv, Typed
  <2>2. Counted'
    BY <1>1, <1>2, <1>3, <2>1 DEF IInv, Counted, Probes
  <2>3. QED
    BY <1>1, <2>2 DEF IInv, Stamped
<1>9. Honest'
  BY <1>1 DEF IInv, Honest
<1>10. QED
  BY <1>4, <1>5, <1>6, <1>7, <1>8, <1>9 DEF IInv

\* What Append does to the elements.
LEMMA Appended ==
    ASSUME NEW S, NEW q \in Seq(S), NEW x \in S
    PROVE  /\ Append(q, x) \in Seq(S)
           /\ Len(Append(q, x)) = Len(q) + 1
           /\ \A i \in DOMAIN Append(q, x) :
                  \/ i \in DOMAIN q /\ Append(q, x)[i] = q[i]
                  \/ i = Len(q) + 1 /\ Append(q, x)[i] = x
           /\ Len(q) + 1 \notin DOMAIN q
  BY AppendProperties

\* The sequence r is q with x, an element of S, appended.
GrownBy(q, r, x, S) ==
    /\ r \in Seq(S) /\ Len(r) = Len(q) + 1 /\ Len(q) \in Nat
    /\ \A i \in DOMAIN r :
           \/ i \in DOMAIN q /\ r[i] = q[i]
           \/ i = Len(q) + 1 /\ r[i] = x
    /\ Len(q) + 1 \notin DOMAIN q

\* That is what Append gives.
LEMMA Grown == ASSUME NEW S, NEW q \in Seq(S), NEW x \in S PROVE GrownBy(q, Append(q, x), x, S)
<1>1. Len(q) \in Nat
  OBVIOUS
<1>2. QED
  BY <1>1, Appended DEF GrownBy

\* What Tail does to the elements.
LEMMA Shortened ==
    ASSUME NEW S, NEW q \in Seq(S), q # <<>>
    PROVE  /\ 1 \in DOMAIN q /\ Head(q) = q[1] /\ Head(q) \in S
           /\ Tail(q) \in Seq(S)
           /\ \A i \in DOMAIN Tail(q) : i \in Nat /\ i # 0 /\ i + 1 \in DOMAIN q /\ Tail(q)[i] = q[i + 1]
  BY HeadTailProperties

\* A sequence without positions is empty.
LEMMA NothingInIt == ASSUME NEW S, NEW q \in Seq(S), \A i \in DOMAIN q : FALSE PROVE q = <<>>
<1>1. Len(q) \in Nat /\ DOMAIN q = 1 .. Len(q)
  OBVIOUS
<1>2. Len(q) = 0
  BY <1>1, SMTT(30)
<1>3. QED
  BY <1>2

\* recvfrom: the oldest datagram becomes a sample.
LEMMA ReceiveStep == ASSUME IInv, Receive PROVE IInv'
<1> USE ProbeAssumption
<1> DEFINE p == Head(socket).probe
           at == Head(socket).at
           new == [probe |-> p, during |-> probe, value |-> Elapsed(p), rtt |-> at - sent[p]]
<1>1. /\ pc = "wait" /\ socket # <<>> /\ probe \in Probes
      /\ samples' = Append(samples, new)
      /\ socket' = Tail(socket)
      /\ \/ probe = num_packets /\ pc' = "done" /\ probe' = probe /\ wake' = wake
         \/ probe # num_packets /\ pc' = "sleep" /\ probe' = probe /\ wake' = now + interval
      /\ UNCHANGED <<tool, now, offset, stamp, sent, probes, replies, copied, late>>
  BY DEF IInv, Typed, Running, Receive, clock, network
<1>2. /\ 1 \in DOMAIN socket /\ Head(socket) = socket[1] /\ Head(socket) \in Received
      /\ Tail(socket) \in Seq(Received)
      /\ \A i \in DOMAIN socket' :
             i \in Nat /\ i # 0 /\ i + 1 \in DOMAIN socket /\ socket'[i] = socket[i + 1]
  BY <1>1, Shortened DEF IInv, Typed
<1>3. p \in Probes /\ at \in Nat /\ sent[p] \in Nat /\ sent[p] <= at /\ at <= now /\ p <= probe
  BY <1>2 DEF IInv, Typed, Causal, Received
<1>4. Elapsed(p) \in Int
  <2>1. get_current_time_ns \in Nat /\ stamp[p] \in Nat /\ now \in Nat /\ sent[probe] \in Nat
    <3>1. stamp[p] \in Nat /\ now \in Nat /\ offset \in Int /\ sent[probe] \in Nat
      <4> HIDE DEF p
      <4>1. stamp \in [Probes -> Nat] /\ sent \in [Probes -> Nat] /\ now \in Nat /\ offset \in Int
        BY DEF IInv, Typed
      <4>2. QED
        BY <1>1, <1>3, <4>1
    <3>2. get_current_time_ns \in Nat
      BY <3>1 DEF get_current_time_ns
    <3>3. QED
      BY <3>1, <3>2
  <2>2. (get_current_time_ns - stamp[p]) % Modulus \in Int
    <3> DEFINE x == get_current_time_ns - stamp[p]
    <3>1. x \in Int
      BY <2>1
    <3> HIDE DEF x
    <3>2. x % Modulus \in Int
      BY <3>1
    <3>3. QED
      BY <3>2 DEF x
  <2>3. now - sent[probe] \in Int
    BY <2>1
  <2>4. QED
    BY <2>2, <2>3, Zenon DEF Elapsed
<1>5. /\ new \in Sample
      /\ new.probe = p /\ new.during = probe /\ new.value = Elapsed(p) /\ new.rtt = at - sent[p]
  BY <1>1, <1>3, <1>4 DEF Sample
<1> HIDE DEF new
<1>6. /\ samples' \in Seq(Sample) /\ Len(samples') = Len(samples) + 1 /\ Len(samples) \in Nat
      /\ \A i \in DOMAIN samples' :
             \/ i \in DOMAIN samples /\ samples'[i] = samples[i]
             \/ i = Len(samples) + 1 /\ samples'[i] = new
      /\ Len(samples) + 1 \notin DOMAIN samples
  <2>1. samples \in Seq(Sample)
    BY DEF IInv, Typed
  <2>2. new \in Sample /\ samples' = Append(samples, new)
    BY <1>1, <1>5
  <2>3. \A x \in Sample : GrownBy(samples, Append(samples, x), x, Sample)
    BY <2>1, Grown
  <2>4. GrownBy(samples, samples', new, Sample)
    BY <2>2, <2>3, Zenon
  <2>5. QED
    BY <2>4 DEF GrownBy
<1> HIDE DEF p, at
<1>7. Typed'
  <2>1. wake' \in Nat
    BY <1>1 DEF IInv, Typed
  <2>2. QED
    BY <1>1, <1>2, <1>6, <2>1, SMTT(30) DEF IInv, Typed, Running
<1>8. Causal'
  <2>1. \A i \in DOMAIN socket' :
            /\ socket'[i].probe <= probe'
            /\ sent'[socket'[i].probe] <= socket'[i].at
            /\ socket'[i].at <= now'
    BY <1>1, <1>2 DEF IInv, Causal
  <2>2. \A i \in DOMAIN samples' : samples'[i].probe <= probe'
    BY <1>1, <1>3, <1>5, <1>6, SMTT(30) DEF IInv, Causal
  <2>3. QED
    BY <1>1, <2>1, <2>2 DEF IInv, Causal
<1>9. InOnePlace'
  <2> SUFFICES ASSUME Apart PROVE Apart'
    BY <1>1 DEF IInv, InOnePlace
  <2>1. \A i \in DOMAIN socket' : socket'[i].probe # p
    BY <1>2 DEF Apart, p
  <2>2. /\ \A i \in DOMAIN samples : samples[i].probe # p
        /\ \A d \in probes \cup replies : d.probe # p
    BY <1>2 DEF Apart, p
  <2>3. \A i, j \in DOMAIN socket' : socket'[i].probe = socket'[j].probe => i = j
    BY <1>2 DEF Apart
  <2>4. \A i, j \in DOMAIN samples' : samples'[i].probe = samples'[j].probe => i = j
    BY <1>5, <1>6, <2>2, SMTT(30) DEF Apart
  <2>5. \A i \in DOMAIN socket' : \A j \in DOMAIN samples' : socket'[i].probe # samples'[j].probe
    BY <1>2, <1>5, <1>6, <2>1 DEF Apart
  <2>6. QED
    BY <1>1, <1>2, <1>5, <1>6, <2>2, <2>3, <2>4, <2>5, SMTT(30) DEF Apart
<1>10. InTime'
  <2> SUFFICES ASSUME ~late, copied = {} PROVE InTime'
    BY <1>1 DEF InTime
  <2>1. /\ \A i \in DOMAIN socket : socket[i].probe = probe
        /\ \A i \in DOMAIN samples : samples[i].probe = samples[i].during
        /\ \A i, j \in DOMAIN socket : socket[i].probe = socket[j].probe => i = j
    BY DEF IInv, InTime, InOnePlace, Apart
  <2>2. \A i \in DOMAIN socket' : FALSE
    BY <1>2, <2>1
  <2>3. p = probe
    BY <1>2, <2>1 DEF p
  <2>4. QED
    BY <1>5, <1>6, <2>1, <2>2, <2>3 DEF InTime
<1>11. Stamped'
  BY <1>1 DEF IInv, Stamped
<1>12. Counted'
  BY <1>1, <1>6, SMTT(30) DEF IInv, Typed, Counted, Probes
<1>13. Honest'
  <2> DEFINE Trusted == IF tool = "cpp" THEN offset = 0 /\ now < Modulus ELSE ~late /\ copied = {}
  <2> SUFFICES ASSUME Trusted PROVE \A i \in DOMAIN samples' : samples'[i].value >= samples'[i].rtt
    BY <1>1 DEF Honest
  <2>1. Elapsed(p) >= at - sent[p]
    <3>1. CASE tool = "cpp"
      <4>1. offset = 0 /\ now < Modulus /\ stamp[p] = sent[p] /\ now \in Nat /\ Modulus \in Nat \ {0}
        BY <3>1 DEF IInv, Typed, Stamped
      <4>2. get_current_time_ns = now
        <5>1. (now + 0) % Modulus = now
          BY <4>1, BelowModulus
        <5>2. QED
          BY <4>1, <5>1 DEF get_current_time_ns
      <4>3. now - sent[p] \in Nat /\ now - sent[p] < Modulus
        BY <1>3, <4>1
      <4>4. (now - sent[p]) % Modulus = now - sent[p]
        BY <4>1, <4>3, BelowModulus
      <4>5. QED
        BY <1>3, <3>1, <4>1, <4>2, <4>4 DEF Elapsed
    <3>2. CASE tool # "cpp"
      <4>1. p = probe
        BY <1>2, <3>2 DEF IInv, InTime, p
      <4>2. QED
        BY <1>3, <3>2, <4>1 DEF IInv, Typed, Elapsed
    <3>3. QED
      BY <3>1, <3>2
  <2>2. \A i \in DOMAIN samples : samples[i].value >= samples[i].rtt
    BY DEF IInv, Honest
  <2>3. QED
    BY <1>5, <1>6, <2>1, <2>2
<1>14. QED
  BY <1>7, <1>8, <1>9, <1>10, <1>11, <1>12, <1>13 DEF IInv

\* A datagram is made of its two fields.
LEMMA DatagramFields ==
    ASSUME NEW S, NEW T, NEW d \in [probe : S, copy : T], NEW b \in T
    PROVE  /\ d.probe \in S
           /\ [d EXCEPT !.copy = b] \in [probe : S, copy : T]
           /\ [d EXCEPT !.copy = b].probe = d.probe
  OBVIOUS

\* Datagrams that agree in both are the same.
LEMMA SameDatagram ==
    ASSUME NEW S, NEW T, NEW d \in [probe : S, copy : T], NEW e \in [probe : S, copy : T],
           d.probe = e.probe, d.copy = e.copy
    PROVE  d = e
  OBVIOUS

\* Inside the network: the reflector answers, a datagram is lost.
LEMMA NetworkStep == ASSUME IInv, Reflect \/ Lose PROVE IInv'
<1>1. /\ UNCHANGED <<tool, now, offset, pc, probe, wake, stamp, sent, samples, copied, socket, late>>
      /\ probes' \subseteq probes
      /\ probes' \cup replies' \subseteq probes \cup replies
      /\ \/ \E d \in probes : probes' = probes \ {d} /\ replies' = replies \cup {d}
         \/ replies' \subseteq replies
  BY DEF Reflect, Lose, clock, sender
<1>2. Typed'
  BY <1>1 DEF IInv, Typed, Running
<1>3. Causal'
  BY <1>1 DEF IInv, Causal
<1>4. InOnePlace'
  <2> SUFFICES ASSUME Apart, copied = {} PROVE Apart'
    BY <1>1 DEF IInv, InOnePlace
  <2>1. \A d \in probes' : \A e \in replies' : d.probe # e.probe
    <3> SUFFICES ASSUME NEW d \in probes', NEW e \in replies', d.probe = e.probe PROVE FALSE
      OBVIOUS
    <3>1. d \in probes /\ d \in Datagram /\ e \in probes \cup replies /\ e \in Datagram
      BY <1>1 DEF IInv, Typed
    <3>2. d.copy = FALSE /\ e.copy = FALSE
      BY <3>1 DEF Apart
    <3>3. d = e
      BY <3>1, <3>2, SameDatagram, Zenon DEF Datagram
    <3>4. e \notin replies
      BY <3>1 DEF Apart
    <3>5. QED
      BY <1>1, <3>3, <3>4
  <2>2. QED
    BY <1>1, <2>1 DEF Apart
<1>5. InTime' /\ Stamped' /\ Counted' /\ Honest'
  BY <1>1 DEF IInv, InTime, Stamped, Counted, Honest
<1>6. QED
  BY <1>2, <1>3, <1>4, <1>5 DEF IInv

\* A duplicate is made: from then on nothing is said of where a probe is.
LEMMA DuplicateStep == ASSUME IInv, Duplicate PROVE IInv'
<1>1. PICK d \in replies :
          /\ d.probe \in Copied \ copied
          /\ replies' = replies \cup {[d EXCEPT !.copy = TRUE]}
          /\ copied' = copied \cup {d.probe}
  BY DEF Duplicate
<1> DEFINE new == [d EXCEPT !.copy = TRUE]
<1>2. UNCHANGED <<tool, now, offset, pc, probe, wake, stamp, sent, samples, probes, socket, late>>
  BY DEF Duplicate, clock, sender
<1>3. d \in Datagram
  BY DEF IInv, Typed
<1>4. d.probe \in Probes /\ new \in Datagram /\ new.probe = d.probe
  BY <1>3, DatagramFields, Zenon DEF Datagram
<1> HIDE DEF new
<1>5. replies' = replies \cup {new} /\ copied' # {}
  BY <1>1 DEF new
<1>6. Typed'
  <2>1. replies' \subseteq Datagram /\ copied' \subseteq Probes
    <3>1. replies \subseteq Datagram /\ copied \subseteq Probes
      BY DEF IInv, Typed
    <3>2. QED
      BY <1>1, <1>4, <1>5, <3>1, Zenon
  <2>2. QED
    BY <1>2, <2>1 DEF IInv, Typed, Running
<1>7. Causal'
  BY <1>2, <1>4, <1>5 DEF IInv, Causal
<1>8. InOnePlace' /\ InTime'
  BY <1>5 DEF InOnePlace, InTime
<1>9. Stamped' /\ Counted'
  BY <1>2 DEF IInv, Stamped, Counted
<1>10. copied' = {} => copied = {}
  BY <1>5
<1>11. Honest'
  BY <1>2, <1>10 DEF IInv, Honest
<1>12. QED
  BY <1>6, <1>7, <1>8, <1>9, <1>11 DEF IInv

\* A reply reaches the socket.
LEMMA DeliverStep == ASSUME IInv, Deliver PROVE IInv'
<1>1. PICK d \in replies :
          /\ replies' = replies \ {d}
          /\ socket' = Append(socket, [probe |-> d.probe, at |-> now])
          /\ late' = (late \/ d.probe # probe \/ pc # "wait")
  BY DEF Deliver
<1> DEFINE new == [probe |-> d.probe, at |-> now]
<1>2. UNCHANGED <<tool, now, offset, pc, probe, wake, stamp, sent, samples, probes, copied>>
  BY DEF Deliver, clock, sender
<1>3. d \in Datagram
  BY DEF IInv, Typed
<1>4. d.probe \in Probes
  BY <1>3, DatagramFields, Zenon DEF Datagram
<1>5. new \in Received /\ new.probe = d.probe /\ new.at = now
  BY <1>4 DEF IInv, Typed, Received
<1> HIDE DEF new
<1>6. /\ socket' \in Seq(Received)
      /\ \A i \in DOMAIN socket' :
             \/ i \in DOMAIN socket /\ socket'[i] = socket[i]
             \/ i = Len(socket) + 1 /\ socket'[i] = new
      /\ Len(socket) + 1 \notin DOMAIN socket
  <2>1. socket' = Append(socket, new)
    BY <1>1 DEF new
  <2>2. socket \in Seq(Received)
    BY DEF IInv, Typed
  <2>3. \A x \in Received : GrownBy(socket, Append(socket, x), x, Received)
    BY <2>2, Grown
  <2>4. GrownBy(socket, socket', new, Received)
    BY <1>5, <2>1, <2>3, Zenon
  <2>5. QED
    BY <2>4 DEF GrownBy
<1>7. ~late' => ~late /\ d.probe = probe /\ pc = "wait"
  BY <1>1, Zenon
<1>8. Typed'
  BY <1>1, <1>2, <1>6 DEF IInv, Typed, Running
<1>9. Causal'
  <2>1. \A i \in DOMAIN socket' :
            /\ socket'[i].probe <= probe /\ (pc = "send" => socket'[i].probe < probe)
            /\ sent[socket'[i].probe] <= socket'[i].at
            /\ socket'[i].at <= now
    BY <1>4, <1>5, <1>6, SMTT(30) DEF IInv, Typed, Causal
  <2>2. QED
    BY <1>1, <1>2, <2>1, SMTT(30) DEF IInv, Causal
<1>10. InOnePlace'
  <2> SUFFICES ASSUME Apart PROVE Apart'
    BY <1>2 DEF IInv, InOnePlace
  <2>1. \A e \in probes' \cup replies' : e.probe # d.probe
    <3> SUFFICES ASSUME NEW e \in replies', e.probe = d.probe PROVE FALSE
      BY <1>2 DEF Apart
    <3>1. e \in Datagram /\ e \in replies /\ e # d
      BY <1>1 DEF IInv, Typed
    <3>2. d.copy = FALSE /\ e.copy = FALSE
      BY <3>1 DEF Apart
    <3>3. QED
      BY <1>3, <3>1, <3>2, SameDatagram, Zenon DEF Datagram
  <2>2. /\ \A i \in DOMAIN socket : socket[i].probe # d.probe
        /\ \A i \in DOMAIN samples : samples[i].probe # d.probe
    BY DEF Apart
  <2>3. \A i, j \in DOMAIN socket' : socket'[i].probe = socket'[j].probe => i = j
    BY <1>5, <1>6, <2>2, SMTT(30) DEF Apart
  <2>4. QED
    BY <1>1, <1>2, <1>5, <1>6, <2>1, <2>2, <2>3 DEF Apart
<1>11. InTime'
  <2> SUFFICES ASSUME ~late, d.probe = probe, pc = "wait", copied = {} PROVE InTime'
    BY <1>2, <1>7 DEF InTime
  <2>1. QED
    BY <1>2, <1>5, <1>6, SMTT(30) DEF IInv, InTime
<1>12. Stamped' /\ Counted'
  BY <1>2 DEF IInv, Stamped, Counted
<1>13. Honest'
  BY <1>2, <1>7 DEF IInv, Honest
<1>14. QED
  BY <1>8, <1>9, <1>10, <1>11, <1>12, <1>13 DEF IInv

\* Time passes, or the settable clock is set.
LEMMA ClockStep == ASSUME IInv, Tick \/ SetClock PROVE IInv'
<1> USE ProbeAssumption
<1>1. /\ UNCHANGED <<tool, pc, probe, wake, stamp, sent, samples, probes, replies, copied, socket, late>>
      /\ \/ now' = now + 1 /\ offset' = offset
         \/ now' = now /\ offset' \in Int /\ offset' # 0
  BY DEF Tick, SetClock, sender, network
<1>2. now' \in Nat /\ offset' \in Int /\ now <= now'
  BY <1>1 DEF IInv, Typed
<1>3. Typed'
  BY <1>1, <1>2 DEF IInv, Typed, Running
<1>4. Causal'
  <2>1. now \in Nat /\ \A p \in Probes : sent[p] \in Nat
    BY DEF IInv, Typed
  <2>2. \A i \in DOMAIN socket : socket[i] \in Received
    BY DEF IInv, Typed
  <2>3. \A i \in DOMAIN socket : socket[i].at \in Nat
    BY <2>2 DEF Received
  <2>4. \A i \in DOMAIN socket : socket[i].at <= now'
    BY <1>2, <2>1, <2>3 DEF IInv, Causal
  <2>5. \A p \in Probes : sent[p] <= now'
    BY <1>2, <2>1, SMTT(30) DEF IInv, Causal
  <2>6. QED
    BY <1>1, <2>4, <2>5 DEF IInv, Causal
<1>5. InOnePlace' /\ InTime' /\ Counted'
  BY <1>1 DEF IInv, InOnePlace, Apart, InTime, Counted
<1>6. offset' = 0 /\ now' < Modulus => offset = 0 /\ now < Modulus
  BY <1>1, <1>2 DEF IInv, Typed
<1>7. Stamped' /\ Honest'
  BY <1>1, <1>6 DEF IInv, Stamped, Honest
<1>8. QED
  BY <1>3, <1>4, <1>5, <1>7 DEF IInv

\* Every step keeps the invariant.
LEMMA NextIInv == IInv /\ [Next]_vars => IInv'
<1> SUFFICES ASSUME IInv, [Next]_vars PROVE IInv'
  OBVIOUS
<1>1. CASE Send
  BY <1>1, SendStep
<1>2. CASE Receive
  BY <1>2, ReceiveStep
<1>3. CASE Fail
  <2>1. ~late' => ~late /\ socket = <<>>
    BY <1>3, Zenon DEF Fail
  <2>2. Running /\ (NextProbe \/ (pc' = "failed" /\ probe' = probe))
    BY <1>3 DEF Fail, Running
  <2>3. QED
    BY <1>3, <2>1, <2>2, AdvanceStep DEF Fail
<1>4. CASE TimedOut
  BY <1>4, AdvanceStep DEF TimedOut, Running
<1>5. CASE Awake
  <2>1. ~late /\ copied = {} => socket = <<>>
    <3>1. ~late /\ copied = {} => \A i \in DOMAIN socket : FALSE
      BY <1>5 DEF IInv, InTime, Awake
    <3>2. socket \in Seq(Received)
      BY DEF IInv, Typed
    <3>3. QED
      BY <3>1, <3>2, NothingInIt
  <2>2. QED
    BY <1>5, <2>1, AdvanceStep DEF Awake, Running
<1>6. CASE Reflect \/ Lose
  BY <1>6, NetworkStep
<1>7. CASE Deliver
  BY <1>7, DeliverStep
<1>8. CASE Duplicate
  BY <1>8, DuplicateStep
<1>9. CASE Tick \/ SetClock
  BY <1>9, ClockStep, SMTT(30)
<1>10. CASE UNCHANGED vars
  BY <1>10, SMTT(30) DEF vars, clock, sender, network, IInv, Typed, Causal, InOnePlace, Apart, InTime,
               Stamped, Counted, Honest, Running
<1>11. QED
  BY <1>1, <1>2, <1>3, <1>4, <1>5, <1>6, <1>7, <1>8, <1>9, <1>10 DEF Next, Sender, Network

\* The invariant holds throughout.
LEMMA Invariance == Spec => []IInv
  BY InitIInv, NextIInv, PTL DEF Spec

\* The flag `late' stays a flag.
LEMMA LateFlag == Spec => [](late \in BOOLEAN)
<1>1. Init => late \in BOOLEAN
  BY Zenon DEF Init
<1>2. late \in BOOLEAN /\ [Next]_vars => (late \in BOOLEAN)'
  BY Zenon DEF Next, Sender, Network, Send, Fail, Receive, TimedOut, Awake, Reflect, Deliver,
               Lose, Duplicate, Tick, SetClock, vars
<1>3. QED
  BY <1>1, <1>2, PTL DEF Spec

\* The variables keep their types, and the sender has no more samples than probes.
THEOREM Types == Spec => []TypeOK
<1>1. IInv /\ late \in BOOLEAN => TypeOK
  <2> SUFFICES ASSUME IInv, late \in BOOLEAN PROVE TypeOK
    OBVIOUS
  <2> QED
    BY DEF IInv, Typed, Counted, TypeOK, Received
<1>2. QED
  BY <1>1, Invariance, LateFlag, PTL

\* Samples of a measurement without late or duplicated replies are of the probes
\* they were taken for, although neither sender looks at the sequence number.
THEOREM SamplesMatch == Spec => []SampleMatchesProbe
<1>1. IInv => SampleMatchesProbe
  BY DEF IInv, InTime, SampleMatchesProbe, Range
<1>2. QED
  BY <1>1, Invariance, PTL

\* rtts_ms.size() never counts a probe twice unless the network duplicates.
THEOREM LossIsNotUnderstated == Spec => []LossNotUnderstated
<1>1. IInv => LossNotUnderstated
  BY DEF IInv, InOnePlace, Apart, LossNotUnderstated
<1>2. QED
  BY <1>1, Invariance, PTL

\* No sample makes a peer look nearer than it is, under the conditions that the
\* two ways to time a round trip need.
THEOREM NothingUnderestimated == Spec => []NeverUnderestimated
<1>1. IInv => NeverUnderestimated
  BY DEF IInv, Honest, NeverUnderestimated, Range
<1>2. QED
  BY <1>1, Invariance, PTL
=============================================================================
