------------------------------ MODULE BwWindow ------------------------------
(***************************************************************************)
(* What the bandwidth strategy promises of one device: the processes share *)
(* a window of usage samples in the order they were uploaded.  A sample    *)
(* leaves the window when it has expired, or as the oldest of a full one.  *)
(* What a process takes for the device's usage is the number of samples    *)
(* of the window that have not expired.                                    *)
(***************************************************************************)
EXTENDS Integers, SequencesExt

CONSTANTS Procs, Capacity, Interval, Unset

VARIABLES clock,   \* time
          window,  \* time stamps of the samples
          usage    \* what each process takes for the usage, if it asked yet

vars == <<clock, window, usage>>

Age(i) == clock - window[i]

Init == clock = 0 /\ window = <<>> /\ usage = [p \in Procs |-> Unset]

Tick == clock' = clock + 1 /\ UNCHANGED <<window, usage>>

\* t: the sample is as old as its uploader's wait for the window.
Upload(t) ==
  /\ window' = Append(IF Len(window) = Capacity THEN Tail(window) ELSE window, t)
  /\ UNCHANGED <<clock, usage>>

Expire(i) ==
  /\ Age(i) >= Interval
  /\ window' = RemoveAt(window, i)
  /\ UNCHANGED <<clock, usage>>

Fresh == Cardinality({i \in DOMAIN window : Age(i) <= Interval})

\* A process asks for the usage; one that reports usage before it has ever
\* asked starts at 0.
Measure(p) ==
  /\ \/ usage' = [usage EXCEPT ![p] = Fresh]
     \/ usage[p] = Unset /\ usage' = [usage EXCEPT ![p] = 0]
  /\ UNCHANGED <<clock, window>>

Next ==
  \/ Tick
  \/ \E t \in 0 .. clock : Upload(t)
  \/ \E i \in DOMAIN window : Expire(i)
  \/ \E p \in Procs : Measure(p)

Spec == Init /\ [][Next]_vars
=============================================================================
