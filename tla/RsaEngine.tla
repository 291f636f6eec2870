----------------------------- MODULE RsaEngine ------------------------------
(***************************************************************************)
(* The RSA methods of the engine: threads whose calls need an engine       *)
(* context of the pool (a queue of the accelerator), report their length   *)
(* through the shared scheduler context, and go to software when anything  *)
(* fails on the way.                                                       *)
(*                                                                         *)
(* Keys, data and paddings are left out: each check that depends on them   *)
(* may have any result.                                                    *)
(***************************************************************************)
EXTENDS EngineBind

CONSTANTS
  EngCtxs,  \* engine contexts that the pool can give
  NoCtx     \* no engine context

Ops == {"pub_enc", "priv_enc", "pub_dec", "priv_dec", "keygen"}

ASSUME RsaAssumption == IsFiniteSet(EngCtxs) /\ NoCtx \notin EngCtxs

VARIABLES
  op,      \* the call of a thread
  pool,    \* engine contexts not in use
  eng_ctx, \* engine context of a thread's call
  soft,    \* rsa_soft_mark; FALSE outside a call
  ret,     \* result of the last step; of the last call when that is over
  out,     \* threads whose output has been written
  untaken  \* history: threads whose private encryption had a result that could
           \* not be taken

rsaVars == <<op, pool, eng_ctx, soft, ret, out, untaken>>
vars == <<engineVars, rsaVars>>

Init ==
  /\ EngineInit
  /\ op = [t \in Threads |-> "pub_enc"]
  /\ pool = EngCtxs
  /\ eng_ctx = [t \in Threads |-> NoCtx]
  /\ soft = [t \in Threads |-> FALSE]
  /\ ret = [t \in Threads |-> "fail"]
  /\ out = {} /\ untaken = {}

PCs == {"out", "in", "get", "dev", "section", "prepare", "crypto", "result",
        "end", "soft", "finish", "freeing"}

TypeOK ==
  /\ EngineTypeOK
  /\ pc \in [Threads -> PCs]
  /\ op \in [Threads -> Ops]
  /\ pool \subseteq EngCtxs
  /\ eng_ctx \in [Threads -> EngCtxs \cup {NoCtx}]
  /\ soft \in [Threads -> BOOLEAN]
  /\ ret \in [Threads -> {"success", "fail"}]
  /\ out \subseteq Threads /\ untaken \subseteq Threads

Ret(t, r) == ret' = [ret EXCEPT ![t] = r]

\* An error on the way: the call is cleaned up, then done in software.
SwitchToSoft(t) ==
  /\ Goto(t, "end")
  /\ soft' = [soft EXCEPT ![t] = TRUE]
  /\ UNCHANGED <<scVars, bindVars, mutex, op, pool, eng_ctx, out, untaken>>
-----------------------------------------------------------------------------
(* The steps of a call *)

\* Bad parameters fail, unsupported sizes go to software.
Call(t) ==
  /\ pc[t] = "in" /\ meths.rsa = "hard"
  /\ op' \in {[op EXCEPT ![t] = o] : o \in Ops}
  /\ out' = out \ {t} /\ untaken' = untaken \ {t}
  /\ Ret(t, "fail")
  /\ \/ Goto(t, "get") \/ Goto(t, "soft") \/ UNCHANGED pc
  /\ UNCHANGED <<scVars, bindVars, mutex, pool, eng_ctx, soft>>

\* Without an engine context there is nothing to clean up.
hpre_get_eng_ctx(t) ==
  /\ pc[t] = "get"
  /\ \/ \E e \in pool :
          /\ pool' = pool \ {e}
          /\ eng_ctx' = [eng_ctx EXCEPT ![t] = e]
          /\ Goto(t, IF op[t] = "keygen" THEN "prepare" ELSE "dev")
     \/ /\ pool = {} \/ Fails("get_eng_ctx")
        /\ Goto(t, "soft")
        /\ UNCHANGED <<pool, eng_ctx>>
  /\ UNCHANGED <<scVars, bindVars, mutex, op, soft, ret, out, untaken>>

\* The result is overwritten by that of the next step.
get_dev_by_sync_mode(t) ==
  /\ \/ pc[t] = "dev" /\ DevLock(t)
     \/ pc[t] = "section" /\ DevUnlock(t)
  /\ UNCHANGED rsaVars

\* Buffers, paddings, conversions; keygen makes its primes.
Prepare(t) ==
  /\ pc[t] = "prepare"
  /\ \/ /\ Goto(t, "crypto") /\ Ret(t, "success")
        /\ UNCHANGED <<scVars, bindVars, mutex, op, pool, eng_ctx, soft, out, untaken>>
     \/ Fails("prepare") /\ SwitchToSoft(t) /\ Ret(t, "fail")

\* The accelerator.
hpre_rsa_crypto(t) ==
  /\ pc[t] = "crypto"
  /\ \/ /\ Goto(t, "result") /\ Ret(t, "success")
        /\ UNCHANGED <<scVars, bindVars, mutex, op, pool, eng_ctx, soft, out, untaken>>
     \/ Fails("crypto") /\ SwitchToSoft(t) /\ Ret(t, "fail")

\* The result is written.
Write(t) ==
  /\ pc[t] = "result"
  /\ Goto(t, "end") /\ out' = out \cup {t}
  /\ UNCHANGED <<scVars, bindVars, mutex, op, pool, eng_ctx, soft, ret, untaken>>

\* Mutant: a wrong padding is not noticed.
WriteUnpadded(t) ==
  /\ pc[t] = "result"
  /\ Goto(t, "end") /\ out' \in {out, out \cup {t}}
  /\ UNCHANGED <<scVars, bindVars, mutex, op, pool, eng_ctx, soft, ret, untaken>>

\* Decryption goes to software with a result that it cannot make sense of.
CheckPadding(t) ==
  \/ Write(t)
  \/ pc[t] = "result" /\ Fails("padding") /\ SwitchToSoft(t) /\ Ret(t, "fail")

\* A result that cannot be taken ends the call: keygen reports it, private
\* encryption has still the accelerator's success.
NotTaken(t, why) ==
  /\ pc[t] = "result" /\ Fails(why) /\ Goto(t, "end")
  /\ IF why = "keygen_param" THEN Ret(t, "fail") /\ UNCHANGED untaken
     ELSE untaken' = untaken \cup {t} /\ UNCHANGED ret
  /\ UNCHANGED <<scVars, bindVars, mutex, op, pool, eng_ctx, soft, out>>

\* Mutant: a call that goes to software keeps its engine context.
EndHardOnly(t) ==
  /\ pc[t] = "end"
  /\ pool' = IF soft[t] THEN pool ELSE pool \cup {eng_ctx[t]}
  /\ eng_ctx' = [eng_ctx EXCEPT ![t] = NoCtx]
  /\ Goto(t, IF soft[t] THEN "soft" ELSE "in")
  /\ UNCHANGED <<scVars, bindVars, mutex, op, soft, ret, out, untaken>>

End(t) ==
  /\ pc[t] = "end"
  /\ pool' = pool \cup {eng_ctx[t]}
  /\ eng_ctx' = [eng_ctx EXCEPT ![t] = NoCtx]
  /\ Goto(t, IF soft[t] THEN "soft" ELSE "in")
  /\ UNCHANGED <<scVars, bindVars, mutex, op, soft, ret, out, untaken>>

hpre_rsa_soft_calc(t) ==
  /\ pc[t] = "soft" /\ Goto(t, "in")
  /\ soft' = [soft EXCEPT ![t] = FALSE]
  /\ \/ Ret(t, "success") /\ out' = out \cup {t}
     \/ Fails("soft") /\ Ret(t, "fail") /\ UNCHANGED out
  /\ UNCHANGED <<scVars, bindVars, mutex, op, pool, eng_ctx, untaken>>

Common(t) ==
  \/ hpre_get_eng_ctx(t) \/ get_dev_by_sync_mode(t) \/ Prepare(t)
  \/ hpre_rsa_crypto(t) \/ End(t) \/ hpre_rsa_soft_calc(t)

kuaf_rsa_public_encrypt(t) == op[t] = "pub_enc" /\ (Common(t) \/ Write(t))
kuaf_rsa_private_encrypt(t) ==
  op[t] = "priv_enc" /\ (Common(t) \/ Write(t) \/ NotTaken(t, "prienc_res"))
kuaf_rsa_public_decrypt(t) == op[t] = "pub_dec" /\ (Common(t) \/ CheckPadding(t))
kuaf_rsa_private_decrypt(t) == op[t] = "priv_dec" /\ (Common(t) \/ CheckPadding(t))
kuaf_rsa_keygen(t) ==
  op[t] = "keygen" /\ (Common(t) \/ Write(t) \/ NotTaken(t, "keygen_param"))

CallStep(t) ==
  \/ kuaf_rsa_public_encrypt(t) \/ kuaf_rsa_private_encrypt(t)
  \/ kuaf_rsa_public_decrypt(t) \/ kuaf_rsa_private_decrypt(t) \/ kuaf_rsa_keygen(t)

EngineStep ==
  /\ \/ bind_fn_kae_alg
     \/ \E t \in Threads : ENGINE_init(t) \/ ENGINE_finish(t) \/ eng_finish(t)
  /\ UNCHANGED rsaVars

Next == EngineStep \/ \E t \in Threads : Call(t) \/ CallStep(t)

Spec == Init /\ [][Next]_vars

\* A thread in a call goes on, and one that waits for ctx_mutex gets it if
\* it is free again and again.
FairSpec ==
  /\ Spec
  /\ \A t \in Threads : SF_vars(CallStep(t)) /\ SF_vars(eng_finish(t) /\ UNCHANGED rsaVars)
-----------------------------------------------------------------------------
(* Properties *)

\* No path through a call loses an engine context or gives it back twice.
EngCtxsKept ==
  /\ pool = EngCtxs \ {eng_ctx[t] : t \in Threads}
  /\ \A t, u \in Threads : eng_ctx[t] = eng_ctx[u] /\ t # u => eng_ctx[t] = NoCtx

\* A call that reports success has written its output, on whichever path.  The
\* only calls that have not are private encryptions whose result could not be
\* taken (rsa_hard.c:465: hpre_get_prienc_res fails, and ret is still that of
\* the accelerator).
SuccessMeansOutput ==
  \A t \in Threads :
    pc[t] \in {"out", "in"} /\ ret[t] = "success" =>
      t \in out \/ (op[t] = "priv_enc" /\ t \in untaken)

\* A call returns, whatever fails, and although eng_finish may take the
\* contexts away in its middle.
InCall(t) == pc[t] \notin {"out", "in", "finish", "freeing"}
CallsEnd == \A t \in Threads : InCall(t) ~> pc[t] = "in"
=============================================================================
