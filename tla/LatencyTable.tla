---------------------------- MODULE LatencyTable ----------------------------
(***************************************************************************)
(* What the shared segment promises to the code that imports and compares  *)
(* routes: a table of the latency known for each address, and a version    *)
(* number.  The table is what bgp_twamp_get_latency answers, the version   *)
(* is what bgp_twamp_check_measurements compares.  Slots, flags, the       *)
(* mapping, the restarts and the two reads and the write of the measuring  *)
(* process that BgpTwamp describes are not visible here.                   *)
(***************************************************************************)
EXTENDS Naturals

CONSTANTS
  Addrs,
  Latencies,
  UINT32_MAX     \* not measured

VARIABLES
  known,         \* the latency of each address
  version,
  intact         \* no result meant for an earlier table was written to this one

Nothing == [a \in Addrs |-> UINT32_MAX]

Init == known = Nothing /\ version = 0 /\ intact = TRUE

\* An address is to be measured from now on, or results are announced: a new
\* version, the same answers.
Announce == version' = version + 1 /\ UNCHANGED <<known, intact>>

\* A result is stored for one address.  It is no new version.
Result(a, l) ==
  /\ intact
  /\ known' = [known EXCEPT ![a] = l]
  /\ UNCHANGED <<version, intact>>

\* A result of an earlier table's measurement arrives: any answer may change.
Spoil ==
  /\ known' \in [Addrs -> Latencies \cup {UINT32_MAX}]
  /\ intact' = FALSE
  /\ UNCHANGED version

\* The segment goes, or bgpd does.
Reset == known' = Nothing /\ version' = 0 /\ intact' = TRUE

Next ==
  \/ Announce
  \/ \E a \in Addrs, l \in Latencies \cup {UINT32_MAX} : Result(a, l)
  \/ Spoil
  \/ Reset

Spec == Init /\ [][Next]_<<known, version, intact>>
=============================================================================
