------------------------------ MODULE MCBwLife ------------------------------
(* Instances of BwLife for TLC. *)
EXTENDS BwLife
MCSegs == 1 .. Cardinality(Procs) + 1
MCSems == 1 .. 3

\* Until a property's excuse; the application of the process that forks and its
\* daemon bring one device to the table, those that are forked the others, and
\* their daemons have nothing to do.
Parents == CHOOSE d \in Devs : TRUE
Own(p) == IF p \in Children THEN Devs \ {Parents} ELSE {Parents}
Bounded ==
  /\ Whole
  /\ \A p \in Procs : /\ known[p] \subseteq Own(p)
                      /\ p \in Children => dev[Daemon(p)] = None
  /\ \A t \in Threads : At(t, "register") => dev[t] \in Own(Proc(t))
=============================================================================
