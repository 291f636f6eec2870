----------------------------- MODULE EngineBind -----------------------------
(***************************************************************************)
(* The OpenSSL engine: one SM2 and one RSA scheduler context, made when    *)
(* the engine is bound and freed by eng_finish, and shared by all threads  *)
(* of the process under ctx_mutex.                                         *)
(*                                                                         *)
(* OpenSSL counts functional references: every RSA key that was made with  *)
(* the engine has one.  The last one given back calls eng_finish, without  *)
(* OpenSSL's own lock, so that another thread may initialise the engine    *)
(* again meanwhile.  One thread binds, and nobody uses the engine before   *)
(* that is done.  The machine has accelerators without shared addresses.   *)
(***************************************************************************)
EXTENDS Scheduler

CONSTANTS
  Threads,
  NoOwner,     \* the owner of a mutex that is free
  Failing      \* calls that may fail, "sm2_create", "rsa_create", "rsa_alg",
               \* "set_rsa" when the engine is bound and others in its calls

ASSUME EngineAssumption ==
  /\ IsFiniteSet(Threads) /\ NoOwner \notin Threads
  /\ Ctxs = {"sm2", "rsa"} /\ Algs = {"SM2", "RSA"}

VARIABLES
  bound,    \* how far bind_fn_kae_alg is
  rsa_alg,  \* rsa_alg_ctx: none, or with sche_ctx null or set
  meths,    \* the engine's methods: unset, soft or hard; sm2, what pkey
            \* offers for SM2
  mutex,    \* owner of ctx_mutex
  pc        \* where a thread is; "out" without a functional reference

bindVars == <<bound, rsa_alg, meths>>
engineVars == <<scVars, bindVars, mutex, pc>>

Fails(call) == call \in Failing

EngineInit ==
  /\ kuaf_inner_ctx_init
  /\ bound = "no" /\ rsa_alg = "none"
  /\ meths = [pkey |-> "unset", sm2 |-> "hard", rsa |-> "unset"]
  /\ mutex = NoOwner
  /\ pc = [t \in Threads |-> "out"]

EngineTypeOK ==
  /\ SchedulerTypeOK
  /\ bound \in {"no", "sm2", "rsa", "methods", "null", "yes", "crashed"}
  /\ rsa_alg \in {"none", "empty", "set"}
  /\ meths \in [pkey : {"unset", "set"}, sm2 : {"soft", "hard"},
               rsa : {"unset", "soft", "hard"}]
  /\ mutex \in Threads \cup {NoOwner}

Goto(t, place) == pc' = [pc EXCEPT ![t] = place]
HasReference(t) == pc[t] \notin {"out", "finish", "freeing"}

-----------------------------------------------------------------------------
(* bind_fn_kae_alg *)

BindGoes(place) == bound' = place

\* The context is created and scheduled.  One that is not scheduled for want
\* of memory or of a strategy is freed next as a soft one, and is Null here.
ScheduleSm2 ==
  /\ bound = "no" /\ BindGoes("sm2")
  /\ \/ kuaf_ctx_scheduler("sm2", "SM2")
     \/ (Fails("sm2_create") \/ NoStrategy("SM2")) /\ UNCHANGED scVars
  /\ UNCHANGED <<rsa_alg, meths, mutex, pc>>

\* hpre_module_sm2_init does not know the engine: it sets none of its methods.
BindSm2 ==
  /\ bound = "sm2" /\ BindGoes("rsa")
  /\ IF Hard("sm2")
     THEN UNCHANGED <<scVars, meths>>
     ELSE /\ kuaf_ctx_scheduler_free("sm2")
          /\ meths' = [meths EXCEPT !.sm2 = "soft", !.pkey = "set"]
  /\ UNCHANGED <<rsa_alg, mutex, pc>>

\* The RSA context is scheduled only if the context of the adapter was
\* allocated too; it is Null when it was not scheduled, but not allocated
\* after "rsa_create".
ScheduleRsa ==
  /\ bound = "rsa"
  /\ \/ /\ kuaf_ctx_scheduler("rsa", "RSA")
        /\ BindGoes("methods") /\ rsa_alg' = "empty"
     \/ /\ Fails("rsa_alg") /\ UNCHANGED scVars
        /\ BindGoes("methods") /\ UNCHANGED rsa_alg
     \/ /\ NoStrategy("RSA") /\ UNCHANGED scVars
        /\ BindGoes("methods") /\ rsa_alg' = "empty"
     \/ /\ Fails("rsa_create") /\ UNCHANGED scVars
        /\ BindGoes("null") /\ rsa_alg' = "empty"
  /\ UNCHANGED <<meths, mutex, pc>>

\* The dev_id of a context that was not allocated is read before the result
\* is looked at.
BindRsa ==
  /\ \/ /\ bound = "null" /\ BindGoes("crashed")
        /\ UNCHANGED <<scVars, rsa_alg, meths>>
     \/ /\ bound = "methods" /\ BindGoes("yes")
        /\ \/ /\ Hard("rsa")
              /\ rsa_alg' = "set"
              /\ meths' \in {[meths EXCEPT !.pkey = "set", !.rsa = r] :
                             r \in {"hard"} \cup (IF Fails("set_rsa") THEN {"unset"} ELSE {})}
              /\ UNCHANGED scVars
           \/ /\ ~ Hard("rsa")
              /\ kuaf_ctx_scheduler_free("rsa")
              /\ meths' = [meths EXCEPT !.rsa = "soft"]
              /\ UNCHANGED rsa_alg
  /\ UNCHANGED <<mutex, pc>>

bind_fn_kae_alg == ScheduleSm2 \/ BindSm2 \/ ScheduleRsa \/ BindRsa

-----------------------------------------------------------------------------
(* References, eng_finish *)

\* A key is made with the engine.  eng_init makes no contexts, not even after
\* an eng_finish.
ENGINE_init(t) ==
  /\ bound = "yes" /\ pc[t] = "out"
  /\ Goto(t, "in")
  /\ UNCHANGED <<scVars, bindVars, mutex>>

\* The key is freed; the last one calls eng_finish.
ENGINE_finish(t) ==
  /\ pc[t] = "in"
  /\ Goto(t, IF \E u \in Threads \ {t} : HasReference(u) THEN "out" ELSE "finish")
  /\ UNCHANGED <<scVars, bindVars, mutex>>

\* Mutant: the contexts are freed without ctx_mutex.
FinishUnlocked(t) ==
  /\ pc[t] = "finish"
  /\ Goto(t, "freeing")
  /\ UNCHANGED <<scVars, bindVars, mutex>>

FinishLock(t) ==
  /\ pc[t] = "finish" /\ mutex = NoOwner
  /\ mutex' = t /\ Goto(t, "freeing")
  /\ UNCHANGED <<scVars, bindVars>>

\* Mutant: the pointers are cleared, the contexts not freed.
ClearContexts(t) ==
  /\ pc[t] = "freeing"
  /\ \E c \in Ctxs : ctx[c] # Null /\ ctx' = [ctx EXCEPT ![c] = Null]
  /\ UNCHANGED <<etc, files, units, bindVars, mutex, pc>>

\* The contexts go one after the other, then the adapter's context that points
\* to one of them.
FreeContexts(t) ==
  /\ pc[t] = "freeing"
  /\ \E c \in Ctxs :
       /\ ctx[c] # Null /\ (c = "rsa" => ctx["sm2"] = Null)
       /\ kuaf_ctx_scheduler_free(c)
  /\ UNCHANGED <<bindVars, mutex, pc>>

FinishUnlock(t) ==
  /\ pc[t] = "freeing" /\ \A c \in Ctxs : ctx[c] = Null
  /\ rsa_alg' = "none"
  /\ mutex' = NoOwner /\ Goto(t, "out")
  /\ UNCHANGED <<scVars, bound, meths>>

eng_finish(t) == FinishLock(t) \/ FreeContexts(t) \/ FinishUnlock(t)

-----------------------------------------------------------------------------
(* get_dev_by_sync_mode *)

\* Mutant: the early return keeps the mutex.
DevNoUnlock(t) ==
  /\ mutex = NoOwner /\ mutex' = t
  /\ Goto(t, IF rsa_alg = "set" THEN "section" ELSE "prepare")
  /\ UNCHANGED <<scVars, bindVars>>

\* Without a context an error, which no caller looks at.
DevLock(t) ==
  /\ mutex = NoOwner
  /\ \/ rsa_alg = "set" /\ mutex' = t /\ Goto(t, "section")
     \/ rsa_alg # "set" /\ Goto(t, "prepare") /\ UNCHANGED mutex
  /\ UNCHANGED <<scVars, bindVars>>

\* The length is written to the shared context and reported.
DevUnlock(t) ==
  /\ mutex' = NoOwner /\ Goto(t, "prepare")
  /\ UNCHANGED <<scVars, bindVars>>
-----------------------------------------------------------------------------
(* Properties *)

\* A thread that is in get_dev_by_sync_mode's section uses a context that
\* eng_finish, which another thread may run at any time, has not freed.
ContextAlive == \A t \in Threads : pc[t] = "section" => ctx["rsa"] # Null

\* Only one thread is in a section of ctx_mutex.
Holders == {t \in Threads : pc[t] \in {"section", "freeing"}}
MutexHeld == Holders = IF mutex = NoOwner THEN {} ELSE {mutex}

\* What binding took from the accelerators is there or has been given back:
\* a unit that is missing belongs to a context, and after eng_finish no unit
\* is missing.
UnitsAccounted ==
  \A alg \in Algs, dev \in Devs :
    units[<<alg, dev>>] # -1 =>
      units[<<alg, dev>>] + Cardinality(HardContexts(alg, dev)) = Number(alg, "parallel")

\* A machine that schedules SM2 on the accelerator serves it there: the
\* engine offers its SM2 methods once it is bound.
Sm2Offered == bound = "yes" /\ ctx["sm2"] # Null => meths.pkey = "set"
=============================================================================
