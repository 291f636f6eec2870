----------------------------- MODULE ZlibProofs -----------------------------
(***************************************************************************)
(* The streams of the zlib adapter and their units, for any finite set of  *)
(* streams, any configuration and any failures.                            *)
(***************************************************************************)
EXTENDS ZlibStream, SchedulerProofs

Inv == /\ SchedulerInv
       /\ TypeOK
       /\ UnitsTaken
       /\ HardMeansPrepared
       /\ DevicesPrepared

\* What the steps of a stream do to its scheduler context: it is scheduled,
\* freed, or left alone.
CtxStep(s) ==
  \/ kuaf_ctx_scheduler(s, Alg(s))
  \/ kuaf_ctx_scheduler_free(s)
  \/ UNCHANGED scVars

LEMMA AlgKnown == \A s : Alg(s) \in Algs
BY StreamAssumption DEF Alg

LEMMA CtxStepInv ==
  ASSUME SchedulerInv, UnitsTaken, DevicesPrepared, NEW s \in Streams, CtxStep(s)
  PROVE  SchedulerInv' /\ UnitsTaken' /\ DevicesPrepared'
<1>1. IsFiniteSet(Ctxs) /\ s \in Ctxs
  BY StreamAssumption DEF Streams
<1>2. CASE kuaf_ctx_scheduler(s, Alg(s))
  BY <1>1, <1>2, AlgKnown, ScheduleInv, ScheduleTakes, SchedulePrepares
<1>3. CASE kuaf_ctx_scheduler_free(s)
  BY <1>1, <1>3, FreeInv, FreeTakes, FreePrepares
<1>4. CASE UNCHANGED scVars
  BY <1>4 DEF scVars, SchedulerInv, SchedulerTypeOK, UnitsTaken, HardContexts, HasUnit,
              Hard, Number, DevicesPrepared
<1>5. QED
  BY <1>2, <1>3, <1>4 DEF CtxStep

\* The context of a stream is hard afterwards only if it was scheduled, or
\* left alone; those of other streams stay what they are.
LEMMA CtxStepHard ==
  ASSUME SchedulerInv, NEW s \in Streams, CtxStep(s)
  PROVE  /\ \A r \in Streams \ {s} : Hard(r)' <=> Hard(r)
         /\ kuaf_ctx_scheduler_free(s) => ~ Hard(s)'
         /\ UNCHANGED scVars => (Hard(s)' <=> Hard(s))
<1>1. s \in Ctxs /\ Streams = Ctxs
  BY DEF Streams
<1>2. ctx \in [Ctxs -> {Null} \cup
                [alg : Algs, strategy : {"bandwidth", "ratio", "parallel"}, dev : Devs]]
  BY DEF SchedulerInv, SchedulerTypeOK
<1>3. UNCHANGED scVars => \A r \in Streams : Hard(r)' <=> Hard(r)
  BY DEF scVars, Hard
<1>4. kuaf_ctx_scheduler_free(s) =>
        ~ Hard(s)' /\ \A r \in Streams \ {s} : Hard(r)' <=> Hard(r)
  BY <1>1, <1>2 DEF kuaf_ctx_scheduler_free, Hard, Null, DEV_ID_UNKNOWN
<1>5. ASSUME kuaf_ctx_scheduler(s, Alg(s))
      PROVE  \A r \in Streams \ {s} : Hard(r)' <=> Hard(r)
  <2> DEFINE a == Alg(s)
  <2>1. PICK st \in {"bandwidth", "ratio", "parallel"}, dev \in Devs :
          /\ ctx' = [ctx EXCEPT ![s] = [alg |-> a, strategy |-> st, dev |-> dev]]
          /\ \/ units' = units /\ (st = "parallel" => dev = DEV_ID_UNKNOWN)
             \/ /\ st = "parallel" /\ dev # DEV_ID_UNKNOWN /\ units[<<a, dev>>] > 0
                /\ units' = [units EXCEPT ![<<a, dev>>] = @ - 1]
    <3>1. a \in Algs
      BY AlgKnown
    <3>2. kuaf_ctx_scheduler(s, a)
      BY <1>5
    <3> HIDE DEF a
    <3>3. QED
      BY <1>1, <3>1, <3>2, ScheduleStep
  <2>2. QED
    BY <1>1, <1>2, <2>1 DEF Hard
<1>6. QED
  BY <1>1, <1>3, <1>4, <1>5 DEF CtxStep

\* Streams are independent of each other: if a step of s keeps what is claimed
\* of s, it keeps what is claimed of all.
Prepared(s) ==
  /\ Usable(s) /\ Hard(s) => s \in kz
  /\ app[s] = "closed" => s \notin kz

LEMMA OthersPrepared ==
  ASSUME Inv, NEW s \in Streams, CtxStep(s), NEW state,
         state \in {"closed", "open", "error", "crashed"},
         app' = [app EXCEPT ![s] = state], kz' \in {kz, kz \cup {s}, kz \ {s}},
         lz' \in {lz, lz \cup {s}, lz \ {s}},
         Prepared(s)'
  PROVE  Inv'
<1>1. SchedulerInv' /\ UnitsTaken' /\ DevicesPrepared'
  BY CtxStepInv DEF Inv
<1>2. TypeOK'
  BY <1>1 DEF Inv, TypeOK, SchedulerInv
<1>3. ASSUME NEW r \in Streams \ {s} PROVE Prepared(r)'
  <2>1. app'[r] = app[r]
    BY DEF Inv, TypeOK
  <2>2. r \in kz' <=> r \in kz
    OBVIOUS
  <2>3. Hard(r)' <=> Hard(r)
    BY CtxStepHard DEF Inv
  <2>4. Prepared(r)
    BY DEF Inv, HardMeansPrepared, Prepared
  <2>5. QED
    BY <2>1, <2>2, <2>3, <2>4 DEF Prepared, Usable
<1>4. HardMeansPrepared'
  BY <1>3 DEF HardMeansPrepared, Prepared
<1>5. QED
  BY <1>1, <1>2, <1>4 DEF Inv

LEMMA CrashInv ==
  ASSUME Inv, NEW s \in Streams, Crash(s)
  PROVE  Inv'
<1>1. app' = [app EXCEPT ![s] = "crashed"] /\ UNCHANGED <<lz, kz>> /\ CtxStep(s)
  BY DEF Crash, Returns, CtxStep
<1>2. Prepared(s)'
  BY <1>1 DEF Prepared, Usable, Inv, TypeOK
<1>3. QED
  BY <1>1, <1>2, OthersPrepared

LEMMA InitInv == Init => Inv
<1> SUFFICES ASSUME Init PROVE Inv
  OBVIOUS
<1>1. kuaf_inner_ctx_init
  BY DEF Init
<1>2. SchedulerInv /\ UnitsTaken /\ DevicesPrepared
  BY <1>1, LoadedInv, LoadedTakes, LoadedPrepares
<1>3. TypeOK
  BY <1>2 DEF Init, TypeOK, SchedulerInv
<1>4. HardMeansPrepared
  BY DEF Init, HardMeansPrepared, Usable
<1>5. QED
  BY <1>2, <1>3, <1>4 DEF Inv

LEMMA StepInv ==
  ASSUME Inv, [Next]_vars
  PROVE  Inv'
<1>1. ASSUME NEW s \in Streams, Init2(s) PROVE Inv'
  <2>1. app[s] = "closed" /\ s \notin kz
    BY <1>1 DEF Init2, Inv, HardMeansPrepared
  <2>2. UNCHANGED app <=> app' = [app EXCEPT ![s] = "closed"]
    BY <2>1 DEF Inv, TypeOK
  <2>3. CASE Opened(s)
    <3>1. CtxStep(s) /\ lz' = lz \cup {s}
      BY <2>3 DEF Opened, CtxStep
    <3>2. CASE ~ Hard(s)' /\ Returns(s, "open") /\ UNCHANGED kz
      <4>1. Prepared(s)'
        BY <3>2 DEF Returns, Prepared, Usable, Inv, TypeOK
      <4>2. QED
        BY <3>1, <3>2, <4>1, OthersPrepared DEF Returns
    <3>3. CASE Hard(s)' /\ Returns(s, "open") /\ kz' = kz \cup {s}
      <4>1. Prepared(s)'
        BY <3>3 DEF Returns, Prepared, Usable, Inv, TypeOK
      <4>2. QED
        BY <3>1, <3>3, <4>1, OthersPrepared DEF Returns
    <3>4. CASE Hard(s)' /\ Fails("kz_init") /\ UNCHANGED <<app, kz>>
      <4>1. Prepared(s)'
        BY <2>1, <3>4 DEF Prepared, Usable
      <4>2. QED
        BY <2>2, <3>1, <3>4, <4>1, OthersPrepared
    <3>5. QED
      BY <2>3, <3>2, <3>3, <3>4 DEF Opened
  <2>4. CASE NotOpened(s)
    <3>1. Prepared(s)' /\ CtxStep(s)
      BY <2>1, <2>4 DEF NotOpened, Prepared, Usable, CtxStep
    <3>2. UNCHANGED <<app, kz>> /\ lz' \in {lz, lz \cup {s}}
      BY <2>4 DEF NotOpened
    <3>3. QED
      BY <2>2, <3>1, <3>2, OthersPrepared
  <2>5. QED
    BY <1>1, <2>3, <2>4 DEF Init2
<1>2. ASSUME NEW s \in Streams, kuaf_ctx_scheduler_free(s), Returns(s, "error"),
             UNCHANGED <<lz, kz>>
      PROVE  Inv'
  <2>1. ~ Hard(s)'
    BY <1>2, CtxStepHard DEF CtxStep, Inv
  <2>2. Prepared(s)'
    BY <1>2, <2>1 DEF Prepared, Usable, Returns, Inv, TypeOK
  <2>3. QED
    BY <1>2, <2>2, OthersPrepared DEF CtxStep, Returns
<1>3. ASSUME NEW s \in Streams, Process(s) PROVE Inv'
  BY <1>2, <1>3, CrashInv DEF Process
<1>4. ASSUME NEW s \in Streams, Reset(s) PROVE Inv'
  BY <1>2, <1>4, CrashInv DEF Reset
<1>5. ASSUME NEW s \in Streams, End(s) PROVE Inv'
  <2>1. ASSUME kuaf_ctx_scheduler_free(s), Returns(s, "closed"), kz' = kz \ {s},
               lz' \in {lz, lz \ {s}}
        PROVE  Inv'
    <3>1. Prepared(s)'
      BY <2>1 DEF Prepared, Usable, Returns, Inv, TypeOK
    <3>2. QED
      BY <2>1, <3>1, OthersPrepared DEF CtxStep, Returns
  <2>2. QED
    BY <1>5, <2>1, CrashInv DEF End
<1>6. CASE UNCHANGED vars
  BY <1>6 DEF vars, scVars, Inv, TypeOK, SchedulerInv, SchedulerTypeOK, UnitsTaken,
              HardContexts, HasUnit, Hard, Number, HardMeansPrepared, Usable,
              DevicesPrepared
<1>7. CASE Next
  <2>1. PICK s \in Streams :
          \/ deflateInit2_(s) \/ deflate(s) \/ deflateReset(s) \/ deflateEnd(s)
          \/ inflateInit2_(s) \/ inflate(s) \/ inflateReset(s) \/ inflateEnd(s)
    BY <1>7 DEF Next
  <2>2. Init2(s) \/ Process(s) \/ Reset(s) \/ End(s)
    BY <2>1 DEF deflateInit2_, deflate, deflateReset, deflateEnd, inflateInit2_, inflate,
                inflateReset, inflateEnd
  <2>3. QED
    BY <1>1, <1>3, <1>4, <1>5, <2>2
<1>8. QED
  BY <1>6, <1>7

LEMMA InvHolds == Spec => []Inv
<1>1. Inv /\ [Next]_vars => Inv'
  BY StepInv
<1>2. QED
  BY <1>1, InitInv, PTL DEF Spec

\* Every variable of the zlib adapter keeps its type.
THEOREM TypeCorrect == Spec => []TypeOK
<1>1. Inv => TypeOK
  BY DEF Inv
<1>2. QED
  BY <1>1, InvHolds, PTL

\* The streams on a device and the units left never exceed the configured
\* limit, whatever call of a stream fails, and however often it is opened.
THEOREM UnitsTakenCorrect == Spec => []UnitsTaken
<1>1. Inv => UnitsTaken
  BY DEF Inv
<1>2. QED
  BY <1>1, InvHolds, PTL

\* A stream that is used on the accelerator was prepared for it, and a closed
\* one leaves nothing there.
THEOREM HardMeansPreparedCorrect == Spec => []HardMeansPrepared
<1>1. Inv => HardMeansPrepared
  BY DEF Inv
<1>2. QED
  BY <1>1, InvHolds, PTL

\* What the scheduler looks up is what a reader of the file finds there, for
\* every directory that the fixed tables can hold.
THEOREM LookupMatchesCorrect == Spec => []LookupMatches
<1>1. Inv => LookupMatches
  BY LookupsMatch DEF Inv
<1>2. QED
  BY <1>1, InvHolds, PTL

\* Wherever the thread that loads the library runs, every device that a thread
\* may be scheduled on has its semaphore, and keeps it.
THEOREM DevicesPreparedCorrect == Spec => []DevicesPrepared
<1>1. Inv => DevicesPrepared
  BY DEF Inv
<1>2. QED
  BY <1>1, InvHolds, PTL
=============================================================================
