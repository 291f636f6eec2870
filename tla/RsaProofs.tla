----------------------------- MODULE RsaProofs ------------------------------
(***************************************************************************)
(* The engine's shared contexts and the RSA calls, for any finite sets of  *)
(* threads and engine contexts, any configuration and any failures.        *)
(***************************************************************************)
EXTENDS RsaEngine, SchedulerProofs

\* Nobody uses the engine before it is bound; the RSA context that the adapter
\* points to is there, unless eng_finish is just freeing it.
BoundInv ==
  /\ bound = "no" => ctx["sm2"] = Null
  /\ bound \in {"no", "sm2", "rsa"} => ctx["rsa"] = Null
  /\ bound # "yes" => \A t \in Threads : pc[t] = "out"
  /\ rsa_alg = "set" =>
       bound = "yes" /\ (ctx["rsa"] # Null \/ \E t \in Threads : pc[t] = "freeing")

\* The places of a call where it has an engine context, and those where its
\* result is what the caller gets.
Busy == {"dev", "section", "prepare", "crypto", "result", "end"}
Over(t) ==
  pc[t] \in {"out", "in", "finish", "freeing"} \/ (pc[t] = "end" /\ ~ soft[t])

CallOK(t) ==
  /\ eng_ctx[t] # NoCtx <=> pc[t] \in Busy
  /\ Over(t) /\ ret[t] = "success" =>
       t \in out \/ (op[t] = "priv_enc" /\ t \in untaken)

Inv == /\ SchedulerInv
       /\ TypeOK
       /\ BoundInv
       /\ MutexHeld
       /\ ContextAlive
       /\ UnitsAccounted
       /\ EngCtxsKept
       /\ \A t \in Threads : CallOK(t)

Sections == {"section", "freeing"}

-----------------------------------------------------------------------------
(* Where threads are *)

\* A thread moves, and takes or releases ctx_mutex when it enters or leaves a
\* section.
LEMMA HoldersMove ==
  ASSUME TypeOK, MutexHeld, NEW t \in Threads, NEW place,
         pc' = [pc EXCEPT ![t] = place],
         \/ UNCHANGED mutex /\ (pc[t] \in Sections <=> place \in Sections)
         \/ mutex = NoOwner /\ mutex' = t /\ place \in Sections
         \/ pc[t] \in Sections /\ mutex' = NoOwner /\ place \notin Sections
  PROVE  MutexHeld'
<1>1. pc \in [Threads -> PCs] /\ NoOwner \notin Threads
  BY EngineAssumption DEF TypeOK
<1>2. \A u \in Threads : u \in Holders <=> pc[u] \in Sections
  BY DEF Holders, Sections
<1>3. \A u \in Threads : u \in Holders' <=> pc'[u] \in Sections
  BY DEF Holders, Sections
<1>4. Holders \subseteq Threads /\ Holders' \subseteq Threads
  BY DEF Holders
<1>5. CASE UNCHANGED mutex /\ (pc[t] \in Sections <=> place \in Sections)
  <2>1. Holders' = Holders
    BY <1>1, <1>2, <1>3, <1>4, <1>5
  <2>2. QED
    BY <1>5, <2>1 DEF MutexHeld
<1>6. CASE mutex = NoOwner /\ mutex' = t /\ place \in Sections
  <2>1. Holders = {}
    BY <1>6 DEF MutexHeld
  <2>2. Holders' = {t}
    BY <1>1, <1>2, <1>3, <1>4, <1>6, <2>1
  <2>3. QED
    BY <1>1, <1>6, <2>2 DEF MutexHeld
<1>7. CASE pc[t] \in Sections /\ mutex' = NoOwner /\ place \notin Sections
  <2>1. Holders = {t}
    BY <1>2, <1>7 DEF MutexHeld
  <2>2. Holders' = {}
    BY <1>1, <1>2, <1>3, <1>4, <1>7, <2>1
  <2>3. QED
    BY <1>7, <2>2 DEF MutexHeld
<1>8. QED
  BY <1>5, <1>6, <1>7

\* One thread at most is in a section.
LEMMA OneHolder ==
  ASSUME MutexHeld, NEW t \in Threads, NEW u \in Threads,
         pc[t] \in Sections, pc[u] \in Sections
  PROVE  t = u /\ mutex # NoOwner
<1>1. t \in Holders /\ u \in Holders
  BY DEF Holders, Sections
<1>2. QED
  BY <1>1 DEF MutexHeld

\* The scheduler's state stays what it is.
LEMMA SchedulerKept ==
  ASSUME SchedulerInv, UNCHANGED scVars
  PROVE  SchedulerInv' /\ (UnitsAccounted => UnitsAccounted')
BY DEF scVars, SchedulerInv, SchedulerTypeOK, UnitsAccounted, HardContexts, HasUnit, Hard,
       Number

-----------------------------------------------------------------------------
(* A step of a call *)

\* Each step of a call changes what belongs to its own thread.
LEMMA CallSteps ==
  ASSUME TypeOK, NEW t \in Threads, Call(t) \/ CallStep(t)
  PROVE  \/ Call(t) \/ hpre_get_eng_ctx(t) \/ get_dev_by_sync_mode(t) \/ Prepare(t)
         \/ hpre_rsa_crypto(t) \/ End(t) \/ hpre_rsa_soft_calc(t) \/ CheckPadding(t)
         \/ NotTaken(t, "keygen_param")
         \/ op[t] = "priv_enc" /\ NotTaken(t, "prienc_res")
BY DEF CallStep, Common, kuaf_rsa_public_encrypt, kuaf_rsa_private_encrypt,
       kuaf_rsa_public_decrypt, kuaf_rsa_private_decrypt, kuaf_rsa_keygen, CheckPadding

\* A call that goes to software.
LEMMA SwitchInv ==
  ASSUME Inv, NEW t \in Threads, pc[t] \in {"prepare", "crypto", "result"},
         SwitchToSoft(t), Ret(t, "fail")
  PROVE  TypeOK' /\ EngCtxsKept' /\ \A u \in Threads : CallOK(u)'
<1>1. TypeOK'
  BY DEF Inv, TypeOK, SwitchToSoft, Goto, Ret, PCs, EngineTypeOK, SchedulerTypeOK,
         scVars, bindVars
<1>2. EngCtxsKept'
  BY DEF Inv, EngCtxsKept, SwitchToSoft
<1>3. ASSUME NEW u \in Threads PROVE CallOK(u)'
  BY DEF Inv, TypeOK, CallOK, Over, Busy, SwitchToSoft, Goto, Ret, Fails
<1>4. QED
  BY <1>1, <1>2, <1>3

LEMMA CallInv ==
  ASSUME Inv, NEW t \in Threads, Call(t)
  PROVE  TypeOK' /\ EngCtxsKept' /\ \A u \in Threads : CallOK(u)'
<1>1. PICK o \in Ops : op' = [op EXCEPT ![t] = o]
  BY DEF Call
<1>2. TypeOK'
  BY <1>1 DEF Inv, TypeOK, Call, Goto, Ret, PCs, EngineTypeOK, SchedulerTypeOK,
              scVars, bindVars
<1>3. EngCtxsKept'
  BY DEF Inv, EngCtxsKept, Call
<1>4. ASSUME NEW u \in Threads PROVE CallOK(u)'
  BY <1>1 DEF Inv, TypeOK, CallOK, Over, Busy, Call, Goto, Ret, Fails
<1>5. QED
  BY <1>2, <1>3, <1>4

LEMMA GetInv ==
  ASSUME Inv, NEW t \in Threads, hpre_get_eng_ctx(t)
  PROVE  TypeOK' /\ EngCtxsKept' /\ \A u \in Threads : CallOK(u)'
<1>1. CASE UNCHANGED <<pool, eng_ctx>> /\ Goto(t, "soft")
  <2>1. TypeOK'
    BY <1>1 DEF Inv, TypeOK, hpre_get_eng_ctx, Goto, PCs, EngineTypeOK, SchedulerTypeOK,
                scVars, bindVars
  <2>2. EngCtxsKept'
    BY <1>1 DEF Inv, EngCtxsKept
  <2>3. ASSUME NEW u \in Threads PROVE CallOK(u)'
    BY <1>1 DEF Inv, TypeOK, CallOK, Over, Busy, hpre_get_eng_ctx, Goto, Fails
  <2>4. QED
    BY <2>1, <2>2, <2>3
<1>2. ASSUME NEW e \in pool, pool' = pool \ {e}, eng_ctx' = [eng_ctx EXCEPT ![t] = e],
             NEW place \in {"prepare", "dev"}, Goto(t, place)
      PROVE  TypeOK' /\ EngCtxsKept' /\ \A u \in Threads : CallOK(u)'
  <2>1. e \in EngCtxs /\ e # NoCtx /\ eng_ctx[t] = NoCtx
    BY <1>2, RsaAssumption DEF Inv, TypeOK, CallOK, Busy, hpre_get_eng_ctx
  <2>2. TypeOK'
    BY <1>2, <2>1 DEF Inv, TypeOK, hpre_get_eng_ctx, Goto, PCs, EngineTypeOK,
                      SchedulerTypeOK, scVars, bindVars
  <2>3. EngCtxsKept'
    <3>1. eng_ctx \in [Threads -> EngCtxs \cup {NoCtx}]
      BY DEF Inv, TypeOK
    <3>2. {eng_ctx'[u] : u \in Threads} \cap EngCtxs
            = ({eng_ctx[u] : u \in Threads} \cap EngCtxs) \cup {e}
      BY <1>2, <2>1, <3>1, RsaAssumption
    <3>3. \A u \in Threads : eng_ctx[u] # e
      BY <1>2, <3>1 DEF Inv, EngCtxsKept
    <3>4. \A u, v \in Threads : eng_ctx'[u] = eng_ctx'[v] /\ u # v => eng_ctx'[u] = NoCtx
      BY <1>2, <3>1, <3>3 DEF Inv, EngCtxsKept
    <3>5. pool' = EngCtxs \ {eng_ctx'[u] : u \in Threads}
      BY <1>2, <3>2 DEF Inv, EngCtxsKept
    <3>6. QED
      BY <3>4, <3>5 DEF EngCtxsKept
  <2>4. ASSUME NEW u \in Threads PROVE CallOK(u)'
    BY <1>2, <2>1 DEF Inv, TypeOK, CallOK, Over, Busy, hpre_get_eng_ctx, Goto, Fails
  <2>5. QED
    BY <2>2, <2>3, <2>4
<1>3. QED
  BY <1>1, <1>2 DEF hpre_get_eng_ctx

LEMMA EndInv ==
  ASSUME Inv, NEW t \in Threads, End(t)
  PROVE  TypeOK' /\ EngCtxsKept' /\ \A u \in Threads : CallOK(u)'
<1>1. /\ eng_ctx \in [Threads -> EngCtxs \cup {NoCtx}]
      /\ eng_ctx' = [eng_ctx EXCEPT ![t] = NoCtx] /\ pool' = pool \cup {eng_ctx[t]}
  BY DEF Inv, TypeOK, End
<1>2. eng_ctx[t] \in EngCtxs
  BY <1>1 DEF Inv, CallOK, Busy, End
<1>3. TypeOK'
  BY <1>1, <1>2 DEF Inv, TypeOK, End, Goto, PCs, EngineTypeOK, SchedulerTypeOK,
                    scVars, bindVars
<1>4. EngCtxsKept'
  <2>1. \A u \in Threads \ {t} : eng_ctx[u] # eng_ctx[t]
    BY <1>2, RsaAssumption DEF Inv, EngCtxsKept
  <2>2. {eng_ctx'[u] : u \in Threads} \cap EngCtxs
          = ({eng_ctx[u] : u \in Threads} \cap EngCtxs) \ {eng_ctx[t]}
    BY <1>1, <2>1, RsaAssumption
  <2>3. pool' = EngCtxs \ {eng_ctx'[u] : u \in Threads}
    BY <1>1, <1>2, <2>2 DEF Inv, EngCtxsKept
  <2>4. \A u, v \in Threads : eng_ctx'[u] = eng_ctx'[v] /\ u # v => eng_ctx'[u] = NoCtx
    BY <1>1 DEF Inv, EngCtxsKept
  <2>5. QED
    BY <2>3, <2>4 DEF EngCtxsKept
<1>5. ASSUME NEW u \in Threads PROVE CallOK(u)'
  BY <1>1 DEF Inv, TypeOK, CallOK, Over, Busy, End, Goto, Fails
<1>6. QED
  BY <1>3, <1>4, <1>5

LEMMA DevInv ==
  ASSUME Inv, NEW t \in Threads, get_dev_by_sync_mode(t)
  PROVE  TypeOK' /\ EngCtxsKept' /\ \A u \in Threads : CallOK(u)'
<1>1. UNCHANGED <<scVars, bindVars, rsaVars>>
  BY DEF get_dev_by_sync_mode, DevLock, DevUnlock
<1>2. PICK place \in {"section", "prepare"} : Goto(t, place)
  BY DEF get_dev_by_sync_mode, DevLock, DevUnlock
<1>3. mutex' \in Threads \cup {NoOwner}
  BY DEF get_dev_by_sync_mode, DevLock, DevUnlock, Inv, TypeOK, EngineTypeOK
<1>4. TypeOK'
  BY <1>1, <1>2, <1>3 DEF Inv, TypeOK, Goto, PCs, EngineTypeOK, SchedulerTypeOK,
                          scVars, bindVars, rsaVars
<1>5. EngCtxsKept'
  BY <1>1 DEF Inv, EngCtxsKept, rsaVars
<1>6. pc[t] \in {"dev", "section"}
  BY DEF get_dev_by_sync_mode
<1>7. ASSUME NEW u \in Threads PROVE CallOK(u)'
  BY <1>1, <1>2, <1>6 DEF Inv, TypeOK, CallOK, Over, Busy, Goto, Fails, rsaVars
<1>8. QED
  BY <1>4, <1>5, <1>7

LEMMA SuccessInv ==
  ASSUME Inv, NEW t \in Threads, UNCHANGED <<scVars, bindVars, mutex, op, pool, eng_ctx>>,
         \/ pc[t] = "prepare" /\ Goto(t, "crypto") /\ Ret(t, "success") /\ UNCHANGED <<soft, out, untaken>>
         \/ pc[t] = "crypto" /\ Goto(t, "result") /\ Ret(t, "success") /\ UNCHANGED <<soft, out, untaken>>
         \/ pc[t] = "result" /\ Goto(t, "end") /\ out' = out \cup {t}
            /\ UNCHANGED <<soft, ret, untaken>>
         \/ NotTaken(t, "keygen_param")
         \/ op[t] = "priv_enc" /\ NotTaken(t, "prienc_res")
         \/ hpre_rsa_soft_calc(t)
  PROVE  TypeOK' /\ EngCtxsKept' /\ \A u \in Threads : CallOK(u)'
<1>1. TypeOK'
  <2>1. TypeOK
    BY DEF Inv
  <2>2. pc' \in [Threads -> PCs]
    <3>1. \E place \in PCs : pc' = [pc EXCEPT ![t] = place]
      BY DEF NotTaken, hpre_rsa_soft_calc, Goto, PCs
    <3>2. QED
      BY <2>1, <3>1 DEF TypeOK
  <2>3. ret' \in [Threads -> {"success", "fail"}]
    <3>1. UNCHANGED ret \/ \E r \in {"success", "fail"} : ret' = [ret EXCEPT ![t] = r]
      BY DEF NotTaken, hpre_rsa_soft_calc, Ret
    <3>2. QED
      BY <2>1, <3>1 DEF TypeOK
  <2>4. soft' \in [Threads -> BOOLEAN]
    BY <2>1 DEF TypeOK, NotTaken, hpre_rsa_soft_calc
  <2>5. out' \subseteq Threads /\ untaken' \subseteq Threads
    BY <2>1 DEF TypeOK, NotTaken, hpre_rsa_soft_calc
  <2>6. EngineTypeOK'
    BY <2>1 DEF TypeOK, EngineTypeOK, SchedulerTypeOK, scVars, bindVars
  <2>7. QED
    BY <2>1, <2>2, <2>3, <2>4, <2>5, <2>6 DEF TypeOK
<1>2. EngCtxsKept'
  BY DEF Inv, EngCtxsKept
<1>3. ASSUME NEW u \in Threads PROVE CallOK(u)'
  BY DEF Inv, TypeOK, CallOK, Over, Busy, NotTaken, hpre_rsa_soft_calc, Goto, Ret, Fails
<1>4. QED
  BY <1>1, <1>2, <1>3

\* The thread's own part of the invariant.
LEMMA CallStepCall ==
  ASSUME Inv, NEW t \in Threads, Call(t) \/ CallStep(t)
  PROVE  TypeOK' /\ EngCtxsKept' /\ \A u \in Threads : CallOK(u)'
<1>1. TypeOK
  BY DEF Inv
<1>2. CASE Prepare(t)
  BY <1>2, SwitchInv, SuccessInv DEF Prepare
<1>3. CASE hpre_rsa_crypto(t)
  BY <1>3, SwitchInv, SuccessInv DEF hpre_rsa_crypto
<1>4. CASE CheckPadding(t)
  BY <1>4, SwitchInv, SuccessInv DEF CheckPadding, Write
<1>5. CASE hpre_rsa_soft_calc(t)
  BY <1>5, SuccessInv DEF hpre_rsa_soft_calc
<1>6. CASE NotTaken(t, "keygen_param") \/ (op[t] = "priv_enc" /\ NotTaken(t, "prienc_res"))
  BY <1>6, SuccessInv DEF NotTaken
<1>7. QED
  BY <1>1, <1>2, <1>3, <1>4, <1>5, <1>6, CallSteps, CallInv, GetInv, DevInv, EndInv

\* The part that is shared by all threads.
LEMMA CallStepShared ==
  ASSUME Inv, NEW t \in Threads, Call(t) \/ CallStep(t)
  PROVE  /\ SchedulerInv' /\ BoundInv' /\ MutexHeld' /\ ContextAlive' /\ UnitsAccounted'
<1>1. TypeOK /\ MutexHeld /\ BoundInv /\ ContextAlive /\ SchedulerInv /\ UnitsAccounted
  BY DEF Inv
<1>2. pc \in [Threads -> PCs]
  BY <1>1 DEF TypeOK
<1>3. UNCHANGED <<scVars, bindVars>>
  BY <1>1, CallSteps
     DEF Call, hpre_get_eng_ctx, get_dev_by_sync_mode, DevLock, DevUnlock, Prepare,
         hpre_rsa_crypto, End, hpre_rsa_soft_calc, CheckPadding, Write, NotTaken,
         SwitchToSoft
<1>4. SchedulerInv' /\ UnitsAccounted'
  BY <1>1, <1>3, SchedulerKept
<1>5. PICK place : /\ pc' = [pc EXCEPT ![t] = place]
                   /\ place \notin {"out", "finish", "freeing"}
                   /\ pc[t] \notin {"out", "finish", "freeing"}
                   /\ \/ UNCHANGED mutex /\ pc[t] # "section" /\ place # "section"
                      \/ mutex = NoOwner /\ mutex' = t /\ place = "section" /\ rsa_alg = "set"
                      \/ pc[t] = "section" /\ mutex' = NoOwner /\ place # "section"
  <2>1. CASE Call(t)
    <3>1. pc[t] = "in" /\ UNCHANGED mutex
      BY <2>1 DEF Call
    <3>2. \E p \in {"in", "get", "soft"} : pc' = [pc EXCEPT ![t] = p]
      BY <1>2, <2>1, <3>1 DEF Call, Goto
    <3>3. QED
      BY <3>1, <3>2
  <2>2. CASE get_dev_by_sync_mode(t)
    BY <2>2 DEF get_dev_by_sync_mode, DevLock, DevUnlock, Goto
  <2>3. CASE hpre_get_eng_ctx(t) \/ End(t)
    BY <2>3 DEF hpre_get_eng_ctx, End, Goto
  <2>4. CASE Prepare(t) \/ hpre_rsa_crypto(t) \/ CheckPadding(t) \/ hpre_rsa_soft_calc(t)
    BY <2>4 DEF Prepare, hpre_rsa_crypto, CheckPadding, Write, hpre_rsa_soft_calc,
                SwitchToSoft, Goto
  <2>5. CASE NotTaken(t, "keygen_param") \/ (op[t] = "priv_enc" /\ NotTaken(t, "prienc_res"))
    BY <2>5 DEF NotTaken, Goto
  <2>6. QED
    BY <1>1, <2>1, <2>2, <2>3, <2>4, <2>5, CallSteps
<1>6. MutexHeld'
  BY <1>1, <1>5, HoldersMove DEF Sections
<1>7. BoundInv'
  <2>1. \A u \in Threads : pc'[u] = "freeing" <=> pc[u] = "freeing"
    BY <1>2, <1>5
  <2>2. bound = "yes"
    BY <1>1, <1>5 DEF BoundInv
  <2>3. QED
    BY <1>1, <1>3, <2>1, <2>2 DEF BoundInv, scVars, bindVars
<1>8. ContextAlive'
  <2>1. ASSUME NEW u \in Threads, pc'[u] = "section" PROVE ctx["rsa"] # Null
    <3>1. CASE u # t \/ pc[t] = "section"
      BY <1>1, <1>2, <1>5, <2>1, <3>1 DEF ContextAlive
    <3>2. CASE u = t /\ pc[t] # "section"
      <4>1. mutex = NoOwner /\ rsa_alg = "set"
        BY <1>2, <1>5, <2>1, <3>2
      <4>2. \A v \in Threads : pc[v] # "freeing"
        BY <1>1, <4>1, OneHolder DEF Sections
      <4>3. QED
        BY <1>1, <4>1, <4>2 DEF BoundInv
    <3>3. QED
      BY <3>1, <3>2
  <2>2. QED
    BY <1>3, <2>1 DEF ContextAlive, scVars
<1>9. QED
  BY <1>4, <1>6, <1>7, <1>8

LEMMA CallStepInv ==
  ASSUME Inv, NEW t \in Threads, Call(t) \/ CallStep(t)
  PROVE  Inv'
BY CallStepCall, CallStepShared DEF Inv

-----------------------------------------------------------------------------
(* A step of the engine *)

LEMMA CtxsFinite == IsFiniteSet(Ctxs)
<1>1. IsFiniteSet({"sm2"})
  BY FS_Singleton
<1>2. IsFiniteSet({"sm2"} \cup {"rsa"})
  BY <1>1, FS_AddElement
<1>3. Ctxs = {"sm2"} \cup {"rsa"}
  BY EngineAssumption
<1>4. QED
  BY <1>2, <1>3

\* What a step of the scheduler keeps, when the place of a context is free.
LEMMA ScheduleKeeps ==
  ASSUME SchedulerInv, UnitsAccounted, NEW c \in Ctxs, ctx[c] = Null, NEW a \in Algs,
         kuaf_ctx_scheduler(c, a)
  PROVE  /\ SchedulerInv' /\ UnitsAccounted'
         /\ \A d \in Ctxs \ {c} : ctx'[d] = ctx[d]
<1>1. SchedulerInv'
  BY ScheduleInv
<1>2. UNCHANGED files /\ \A d \in Ctxs \ {c} : ctx'[d] = ctx[d]
  <2>1. PICK s \in {"bandwidth", "ratio", "parallel"}, dev \in Devs :
          /\ ctx' = [ctx EXCEPT ![c] = [alg |-> a, strategy |-> s, dev |-> dev]]
          /\ \/ units' = units /\ (s = "parallel" => dev = DEV_ID_UNKNOWN)
             \/ /\ s = "parallel" /\ dev # DEV_ID_UNKNOWN /\ units[<<a, dev>>] > 0
                /\ units' = [units EXCEPT ![<<a, dev>>] = @ - 1]
    BY ScheduleStep
  <2>2. UNCHANGED files
    BY ScheduleStep
  <2>3. QED
    BY <2>1, <2>2 DEF SchedulerInv, SchedulerTypeOK
<1>3. ASSUME NEW alg \in Algs, NEW dev \in Devs, units'[<<alg, dev>>] # -1
      PROVE  units'[<<alg, dev>>] + Cardinality(HardContexts(alg, dev)') = Number(alg, "parallel")
  <2> DEFINE H == HardContexts(alg, dev)
             n == units[<<alg, dev>>]
  <2>1. IsFiniteSet(Ctxs)
    BY CtxsFinite
  <2>2. n \in Int /\ IsFiniteSet(H) /\ Cardinality(H) \in Nat
    BY <2>1, HardFinite DEF SchedulerInv, SchedulerTypeOK
  <2>3. Number(alg, "parallel") \in Int
    BY NumberInt
  <2>4. n # -1 => n + Cardinality(H) = Number(alg, "parallel")
    BY DEF UnitsAccounted
  <2>5. CASE n' = n /\ H' = H
    BY <1>3, <2>4, <2>5
  <2>6. CASE n > 0 /\ n' = n - 1 /\ H' = H \cup {c} /\ c \notin H
    <3>1. Cardinality(H \cup {c}) = Cardinality(H) + 1
      BY <2>2, <2>6, FS_AddElement
    <3>2. QED
      BY <2>2, <2>3, <2>4, <2>6, <3>1
  <2>7. QED
    BY <2>5, <2>6, ScheduleMoves
<1>4. UnitsAccounted'
  BY <1>2, <1>3 DEF UnitsAccounted, Number
<1>5. QED
  BY <1>1, <1>2, <1>4

LEMMA FreeKeeps ==
  ASSUME SchedulerInv, UnitsAccounted, NEW c \in Ctxs, kuaf_ctx_scheduler_free(c)
  PROVE  SchedulerInv' /\ UnitsAccounted' /\ ctx' = [ctx EXCEPT ![c] = Null]
<1>1. SchedulerInv' /\ UNCHANGED files /\ ctx' = [ctx EXCEPT ![c] = Null]
  BY FreeInv DEF kuaf_ctx_scheduler_free
<1>2. ASSUME NEW alg \in Algs, NEW dev \in Devs, units'[<<alg, dev>>] # -1
      PROVE  units'[<<alg, dev>>] + Cardinality(HardContexts(alg, dev)') = Number(alg, "parallel")
  <2> DEFINE H == HardContexts(alg, dev)
             n == units[<<alg, dev>>]
  <2>1. IsFiniteSet(Ctxs)
    BY CtxsFinite
  <2>2. n \in Int /\ IsFiniteSet(H) /\ Cardinality(H) \in Nat
    BY <2>1, HardFinite DEF SchedulerInv, SchedulerTypeOK
  <2>3. Number(alg, "parallel") \in Int
    BY NumberInt
  <2>4. n # -1 => n + Cardinality(H) = Number(alg, "parallel")
    BY DEF UnitsAccounted
  <2>5. CASE n' = n /\ H' = H
    BY <1>2, <2>4, <2>5
  <2>6. CASE c \in H /\ H' = H \ {c} /\ n' = IF n = -1 THEN -1 ELSE n + 1
    <3>1. Cardinality(H \ {c}) = Cardinality(H) - 1
      BY <2>2, <2>6, FS_RemoveElement
    <3>2. QED
      BY <1>2, <2>2, <2>3, <2>4, <2>6, <3>1
  <2>7. QED
    BY <2>5, <2>6, FreeMoves
<1>3. QED
  BY <1>1, <1>2 DEF UnitsAccounted, Number

\* What is claimed of the calls depends on the calls' variables and on where
\* the threads are.
LEMMA CallsKept ==
  ASSUME Inv, UNCHANGED rsaVars, NEW t \in Threads, NEW place \in PCs \ Busy,
         pc[t] \notin Busy, Over(t)' => Over(t),
         UNCHANGED pc \/ pc' = [pc EXCEPT ![t] = place],
         EngineTypeOK'
  PROVE  TypeOK' /\ EngCtxsKept' /\ \A u \in Threads : CallOK(u)'
<1>1. TypeOK'
  BY DEF Inv, TypeOK, rsaVars
<1>2. EngCtxsKept'
  BY DEF Inv, EngCtxsKept, rsaVars
<1>3. ASSUME NEW u \in Threads PROVE CallOK(u)'
  BY DEF Inv, TypeOK, CallOK, Over, rsaVars, Fails, Busy
<1>4. QED
  BY <1>1, <1>2, <1>3

\* The engine is bound while no thread uses it.
LEMMA BindInv ==
  ASSUME Inv, bind_fn_kae_alg, UNCHANGED rsaVars
  PROVE  Inv'
<1>1. bound # "yes" /\ (\A t \in Threads : pc[t] = "out") /\ rsa_alg # "set"
  BY DEF bind_fn_kae_alg, ScheduleSm2, BindSm2, ScheduleRsa, BindRsa, Inv, BoundInv
<1>2. UNCHANGED <<mutex, pc>>
  BY DEF bind_fn_kae_alg, ScheduleSm2, BindSm2, ScheduleRsa, BindRsa
<1>3. "sm2" \in Ctxs /\ "rsa" \in Ctxs /\ "SM2" \in Algs /\ "RSA" \in Algs
  BY EngineAssumption
<1>4. ctx \in [Ctxs -> {Null} \cup
                [alg : Algs, strategy : {"bandwidth", "ratio", "parallel"}, dev : Devs]]
  BY DEF Inv, SchedulerInv, SchedulerTypeOK
<1>5. SchedulerInv /\ UnitsAccounted /\ BoundInv /\ EngineTypeOK
  BY DEF Inv, TypeOK
<1>6. /\ SchedulerInv' /\ UnitsAccounted'
      /\ bound' \in {"sm2", "rsa"} => ctx'["rsa"] = Null
      /\ rsa_alg' = "set" => bound' = "yes" /\ ctx'["rsa"] # Null
      /\ bound' # "no"
      /\ bound' \in {"sm2", "rsa", "methods", "null", "yes", "crashed"}
      /\ rsa_alg' \in {"none", "empty", "set"}
      /\ meths' \in [pkey : {"unset", "set"}, sm2 : {"soft", "hard"},
                      rsa : {"unset", "soft", "hard"}]
  <2>1. CASE ScheduleSm2
    <3>1. ctx["sm2"] = Null /\ ctx["rsa"] = Null
      BY <1>5, <2>1 DEF ScheduleSm2, BoundInv
    <3>2. SchedulerInv' /\ UnitsAccounted' /\ ctx'["rsa"] = Null
      <4>1. CASE kuaf_ctx_scheduler("sm2", "SM2")
        BY <1>3, <1>5, <3>1, <4>1, ScheduleKeeps
      <4>2. CASE UNCHANGED scVars
        BY <1>5, <3>1, <4>2, SchedulerKept DEF scVars
      <4>3. QED
        BY <2>1, <4>1, <4>2 DEF ScheduleSm2
    <3>3. QED
      BY <1>1, <1>5, <2>1, <3>2 DEF ScheduleSm2, BindGoes, EngineTypeOK
  <2>2. CASE BindSm2
    <3>1. ctx["rsa"] = Null
      BY <1>5, <2>2 DEF BindSm2, BoundInv
    <3>2. SchedulerInv' /\ UnitsAccounted' /\ ctx'["rsa"] = Null
      <4>1. CASE kuaf_ctx_scheduler_free("sm2")
        BY <1>3, <1>4, <1>5, <3>1, <4>1, FreeKeeps
      <4>2. CASE UNCHANGED scVars
        BY <1>5, <3>1, <4>2, SchedulerKept DEF scVars
      <4>3. QED
        BY <2>2, <4>1, <4>2 DEF BindSm2
    <3>3. meths' \in {meths, [meths EXCEPT !.sm2 = "soft", !.pkey = "set"]}
      BY <2>2 DEF BindSm2
    <3>4. QED
      BY <1>1, <1>5, <2>2, <3>2, <3>3 DEF BindSm2, BindGoes, EngineTypeOK
  <2>3. CASE ScheduleRsa
    <3>1. ctx["rsa"] = Null
      BY <1>5, <2>3 DEF ScheduleRsa, BoundInv
    <3>2. SchedulerInv' /\ UnitsAccounted'
      <4>1. CASE kuaf_ctx_scheduler("rsa", "RSA")
        BY <1>3, <1>5, <3>1, <4>1, ScheduleKeeps
      <4>2. CASE UNCHANGED scVars
        BY <1>5, <4>2, SchedulerKept
      <4>3. QED
        BY <2>3, <4>1, <4>2 DEF ScheduleRsa
    <3>3. QED
      BY <1>1, <1>5, <2>3, <3>2 DEF ScheduleRsa, BindGoes, EngineTypeOK
  <2>4. CASE BindRsa
    <3>1. CASE bound = "null"
      <4>1. UNCHANGED <<scVars, rsa_alg, meths>> /\ BindGoes("crashed")
        BY <2>4, <3>1 DEF BindRsa
      <4>2. QED
        BY <1>1, <1>5, <4>1, SchedulerKept DEF BindGoes, EngineTypeOK
    <3>2. CASE bound = "methods" /\ Hard("rsa")
      <4>1. UNCHANGED scVars /\ rsa_alg' = "set" /\ BindGoes("yes")
        BY <2>4, <3>2 DEF BindRsa
      <4>2. ctx'["rsa"] # Null
        BY <3>2, <4>1 DEF Hard, Null, scVars, DEV_ID_UNKNOWN
      <4>3. \E r \in {"hard", "unset"} : meths' = [meths EXCEPT !.pkey = "set", !.rsa = r]
        BY <2>4, <3>2 DEF BindRsa
      <4>4. QED
        BY <1>5, <4>1, <4>2, <4>3, SchedulerKept DEF BindGoes, EngineTypeOK
    <3>3. CASE bound = "methods" /\ ~ Hard("rsa")
      <4>1. kuaf_ctx_scheduler_free("rsa") /\ UNCHANGED rsa_alg /\ BindGoes("yes")
            /\ meths' = [meths EXCEPT !.rsa = "soft"]
        BY <2>4, <3>3 DEF BindRsa
      <4>2. SchedulerInv' /\ UnitsAccounted'
        BY <1>3, <1>5, <4>1, FreeKeeps
      <4>3. QED
        BY <1>1, <1>5, <4>1, <4>2 DEF BindGoes, EngineTypeOK
    <3>4. QED
      BY <2>4, <3>1, <3>2, <3>3 DEF BindRsa
  <2>5. QED
    BY <2>1, <2>2, <2>3, <2>4 DEF bind_fn_kae_alg
<1>7. BoundInv'
  BY <1>1, <1>2, <1>6 DEF BoundInv
<1>8. MutexHeld' /\ ContextAlive'
  BY <1>1, <1>2 DEF Inv, MutexHeld, Holders, ContextAlive
<1>9. EngineTypeOK'
  BY <1>2, <1>5, <1>6 DEF EngineTypeOK, SchedulerInv
<1>10. TypeOK' /\ EngCtxsKept' /\ \A t \in Threads : CallOK(t)'
  BY <1>2, <1>9 DEF Inv, TypeOK, EngCtxsKept, CallOK, Over, Busy, rsaVars, Fails
<1>11. QED
  BY <1>6, <1>7, <1>8, <1>10 DEF Inv

\* References, and the first and the last step of eng_finish.
LEMMA ReferenceInv ==
  ASSUME Inv, NEW t \in Threads, UNCHANGED rsaVars,
         ENGINE_init(t) \/ ENGINE_finish(t) \/ FinishLock(t) \/ FinishUnlock(t)
  PROVE  Inv'
<1>1. UNCHANGED <<scVars, bound, meths>> /\ (rsa_alg' = rsa_alg \/ rsa_alg' = "none")
  BY DEF ENGINE_init, ENGINE_finish, FinishLock, FinishUnlock, bindVars
<1>2. PICK place \in {"out", "in", "finish", "freeing"} : pc' = [pc EXCEPT ![t] = place]
  BY DEF ENGINE_init, ENGINE_finish, FinishLock, FinishUnlock, Goto
<1>3. pc[t] \in {"out", "in", "finish", "freeing"} /\ pc \in [Threads -> PCs]
  BY DEF ENGINE_init, ENGINE_finish, FinishLock, FinishUnlock, Inv, TypeOK
<1>4. \/ UNCHANGED mutex /\ (pc[t] \in Sections <=> place \in Sections)
      \/ mutex = NoOwner /\ mutex' = t /\ place \in Sections
      \/ pc[t] \in Sections /\ mutex' = NoOwner /\ place \notin Sections
  <2>1. pc'[t] = place
    BY <1>2, <1>3
  <2>2. QED
    BY <1>3, <2>1 DEF ENGINE_init, ENGINE_finish, FinishLock, FinishUnlock, Goto, Sections
<1>5. MutexHeld'
  BY <1>2, <1>4, HoldersMove DEF Inv
<1>6. SchedulerInv' /\ UnitsAccounted'
  BY <1>1, SchedulerKept DEF Inv
<1>7. BoundInv'
  <2>1. bound = "yes"
    BY DEF Inv, BoundInv, ENGINE_init, ENGINE_finish, FinishLock, FinishUnlock
  <2>2. rsa_alg' = "set" => \A u \in Threads : pc[u] = "freeing" => pc'[u] = "freeing"
    BY <1>3 DEF ENGINE_init, ENGINE_finish, FinishLock, FinishUnlock, Goto
  <2>3. QED
    BY <1>1, <2>1, <2>2 DEF Inv, BoundInv, scVars
<1>8. ContextAlive'
  BY <1>1, <1>2, <1>3 DEF Inv, ContextAlive, scVars
<1>9. EngineTypeOK'
  <2>1. mutex' \in Threads \cup {NoOwner}
    BY <1>4 DEF Inv, TypeOK, EngineTypeOK
  <2>2. QED
    BY <1>1, <1>6, <2>1 DEF Inv, TypeOK, EngineTypeOK, SchedulerInv
<1>10. TypeOK' /\ EngCtxsKept' /\ \A u \in Threads : CallOK(u)'
  <2>1. place \in PCs \ Busy /\ pc[t] \notin Busy
    BY <1>3 DEF PCs, Busy
  <2>2. Over(t)
    BY <1>3 DEF Over
  <2>3. QED
    BY <1>2, <1>9, <2>1, <2>2, CallsKept
<1>11. QED
  BY <1>5, <1>6, <1>7, <1>8, <1>10 DEF Inv

\* A context is freed within the section.
LEMMA FreeContextsInv ==
  ASSUME Inv, NEW t \in Threads, UNCHANGED rsaVars, FreeContexts(t)
  PROVE  Inv'
<1>1. pc[t] = "freeing" /\ UNCHANGED <<bindVars, mutex, pc>>
  BY DEF FreeContexts
<1>2. PICK c \in Ctxs : kuaf_ctx_scheduler_free(c)
  BY DEF FreeContexts
<1>3. SchedulerInv' /\ UnitsAccounted' /\ ctx' = [ctx EXCEPT ![c] = Null]
  BY <1>2, FreeKeeps DEF Inv
<1>4. BoundInv'
  <2>1. bound = "yes"
    BY <1>1 DEF Inv, BoundInv
  <2>2. QED
    BY <1>1, <2>1 DEF Inv, BoundInv, bindVars
<1>5. MutexHeld'
  BY <1>1 DEF Inv, MutexHeld, Holders
<1>6. ContextAlive'
  <2>1. \A u \in Threads : pc[u] # "section"
    BY <1>1, OneHolder DEF Inv, Sections
  <2>2. QED
    BY <1>1, <2>1 DEF ContextAlive
<1>7. EngineTypeOK'
  BY <1>1, <1>3 DEF Inv, TypeOK, EngineTypeOK, SchedulerInv, bindVars
<1>8. TypeOK' /\ EngCtxsKept' /\ \A u \in Threads : CallOK(u)'
  BY <1>1, <1>7 DEF Inv, TypeOK, EngCtxsKept, CallOK, Over, Busy, rsaVars, Fails
<1>9. QED
  BY <1>3, <1>4, <1>5, <1>6, <1>8 DEF Inv

-----------------------------------------------------------------------------
LEMMA InitInv == Init => Inv
<1> SUFFICES ASSUME Init PROVE Inv
  OBVIOUS
<1>1. kuaf_inner_ctx_init /\ EngineInit
  BY DEF Init, EngineInit
<1>2. SchedulerInv
  BY <1>1, LoadedInv
<1>3. ctx = [c \in Ctxs |-> Null] /\ "sm2" \in Ctxs /\ "rsa" \in Ctxs
  BY <1>1, EngineAssumption DEF kuaf_inner_ctx_init
<1>4. BoundInv
  BY <1>1, <1>3 DEF EngineInit, BoundInv
<1>5. TypeOK
  BY <1>1, <1>2 DEF Init, EngineInit, TypeOK, EngineTypeOK, SchedulerInv, PCs, Ops
<1>6. MutexHeld /\ ContextAlive
  BY <1>1 DEF EngineInit, MutexHeld, Holders, ContextAlive
<1>7. UnitsAccounted
  <2>1. ASSUME NEW alg \in Algs, NEW dev \in Devs, units[<<alg, dev>>] # -1
        PROVE  units[<<alg, dev>>] + Cardinality(HardContexts(alg, dev))
                 = Number(alg, "parallel")
    <3>1. HardContexts(alg, dev) = {}
      BY <1>3 DEF HardContexts, HasUnit, Hard, Null, DEV_ID_UNKNOWN
    <3>2. Cardinality(HardContexts(alg, dev)) = 0
      BY <3>1, FS_EmptySet
    <3>3. units[<<alg, dev>>] = Number(alg, "parallel") /\ units[<<alg, dev>>] \in Int
      BY <1>1, <1>2, <2>1, LoadedTakes DEF SchedulerInv, SchedulerTypeOK
    <3>4. QED
      BY <3>2, <3>3
  <2>2. QED
    BY <2>1 DEF UnitsAccounted
<1>8. EngCtxsKept
  BY RsaAssumption DEF Init, EngCtxsKept
<1>9. \A t \in Threads : CallOK(t)
  BY <1>1 DEF Init, EngineInit, CallOK, Over, Busy
<1>10. QED
  BY <1>2, <1>4, <1>5, <1>6, <1>7, <1>8, <1>9 DEF Inv

LEMMA StepInv ==
  ASSUME Inv, [Next]_vars
  PROVE  Inv'
<1>1. CASE EngineStep
  BY <1>1, BindInv, ReferenceInv, FreeContextsInv DEF EngineStep, eng_finish
<1>2. CASE \E t \in Threads : Call(t) \/ CallStep(t)
  BY <1>2, CallStepInv
<1>3. CASE UNCHANGED vars
  <2>1. UNCHANGED <<scVars, bindVars, mutex, pc, rsaVars>>
    BY <1>3 DEF vars, engineVars
  <2>2. SchedulerInv' /\ UnitsAccounted'
    BY <2>1, SchedulerKept DEF Inv
  <2>3. BoundInv' /\ MutexHeld' /\ ContextAlive'
    BY <2>1 DEF Inv, BoundInv, MutexHeld, Holders, ContextAlive, scVars, bindVars
  <2>4. TypeOK' /\ EngCtxsKept' /\ \A t \in Threads : CallOK(t)'
    BY <2>1, <2>2 DEF Inv, TypeOK, EngineTypeOK, SchedulerInv, EngCtxsKept, CallOK, Over,
                      Busy, Fails, rsaVars, bindVars
  <2>5. QED
    BY <2>2, <2>3, <2>4 DEF Inv
<1>4. QED
  BY <1>1, <1>2, <1>3 DEF Next

LEMMA InvHolds == Spec => []Inv
<1>1. Inv /\ [Next]_vars => Inv'
  BY StepInv
<1>2. QED
  BY <1>1, InitInv, PTL DEF Spec

\* Every variable of the engine and its calls keeps its type.
THEOREM TypeCorrect == Spec => []TypeOK
<1>1. Inv => TypeOK
  BY DEF Inv
<1>2. QED
  BY <1>1, InvHolds, PTL

\* One thread at a time is in a section of ctx_mutex, the one that owns it.
THEOREM MutexHeldCorrect == Spec => []MutexHeld
<1>1. Inv => MutexHeld
  BY DEF Inv
<1>2. QED
  BY <1>1, InvHolds, PTL

\* A thread that reports a length finds the shared context alive, although
\* eng_finish may run between any two of its steps.
THEOREM ContextAliveCorrect == Spec => []ContextAlive
<1>1. Inv => ContextAlive
  BY DEF Inv
<1>2. QED
  BY <1>1, InvHolds, PTL

\* What binding took and eng_finish gave back add up to the configured number
\* of units, for any configuration and any failure.
THEOREM UnitsAccountedCorrect == Spec => []UnitsAccounted
<1>1. Inv => UnitsAccounted
  BY DEF Inv
<1>2. QED
  BY <1>1, InvHolds, PTL

\* No call loses an engine context or gives it back twice.
THEOREM EngCtxsKeptCorrect == Spec => []EngCtxsKept
<1>1. Inv => EngCtxsKept
  BY DEF Inv
<1>2. QED
  BY <1>1, InvHolds, PTL

\* A call that reports success has written its output, with the one exception
\* that SuccessMeansOutput names.
THEOREM SuccessMeansOutputCorrect == Spec => []SuccessMeansOutput
<1>1. Inv => SuccessMeansOutput
  BY DEF Inv, CallOK, Over, SuccessMeansOutput
<1>2. QED
  BY <1>1, InvHolds, PTL
=============================================================================
