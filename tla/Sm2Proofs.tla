----------------------------- MODULE Sm2Proofs -----------------------------
(***************************************************************************)
(* Queues and sessions of the SM2 adapter, for any number of contexts and  *)
(* queues, any digests and any failures.                                   *)
(***************************************************************************)
EXTENDS Sm2Engine, TLAPS

\* What is true of a context's queue and session as long as no context has
\* put a queue back and kept it.  A key that the driver refuses is not in the
\* session, whatever the context remembers.
SessionOK(c) ==
  LET q == sm[c].queue IN
  q # NoQueue =>
    /\ q \notin pool
    /\ \A d \in Ctxs : sm[d].queue = q => c = d
    /\ wd[q].hash # "none"
    /\ sm[c].md # "none" => wd[q].hash = sm[c].md
    /\ "set_key" \notin Failing =>
         \A key \in Kinds : sm[c][key] => wd[q][key] = c

\* A call has a queue, and before the hardware computes its key was set.
CallOK(c) ==
  /\ sm[c].status # "fail"
  /\ sm[c].status = "closed" => call[c] = Idle
  /\ call[c].at # "idle" => sm[c].queue # NoQueue
  /\ call[c].at = "do" => sm[c][call[c].key]

Inv == /\ TypeOK
       /\ ~strayed => \A c \in Ctxs : SessionOK(c) /\ CallOK(c)

\* Contexts and sessions before their first use.
LEMMA ClosedType == NewPrivCtx \in PrivCtx /\ Closed \in PrivCtx /\ NoSession \in Session
<1>1. NewPrivCtx \in PrivCtx
  BY DEF NewPrivCtx, PrivCtx
<1> QED
  BY <1>1 DEF NewPrivCtx, Closed, PrivCtx, NoSession, Session, Keys

\* A new session has no keys and the digest of its context.
LEMMA HashForType ==
  ASSUME TypeOK, NEW s \in PrivCtx, NEW q \in QueueFor(s)
  PROVE  /\ q \in Queues
         /\ HashFor(s, q) \in {"sha256", "sm3"}
         /\ s.md = "sm3" => HashFor(s, q) = "sm3"
BY DEF TypeOK, PrivCtx, QueueFor, HashFor

\* hpre_sm2_update_sess keeps the types.
LEMMA UpdateType ==
  ASSUME TypeOK, NEW c \in Ctxs, NEW s \in PrivCtx, hpre_sm2_update_sess(c, s)
  PROVE  /\ pool' \subseteq Queues
         /\ wd' \in [Queues -> Session]
         /\ hash' \in [Queues -> {"sha256", "sm3"}]
         /\ sm' \in [Ctxs -> PrivCtx]
         /\ strayed' \in BOOLEAN
<1>1. CASE s.queue = NoQueue /\ Store(c, s) /\ UNCHANGED <<pool, wd, hash, strayed>>
  BY <1>1 DEF TypeOK, Store
<1>2. ASSUME NEW q \in QueueFor(s), wd_sm2_put_engine_ctx(q), strayed' = TRUE,
             hash' = [hash EXCEPT ![q] = HashFor(s, q)],
             NEW st \in {"succ", "fail", "closed"},
             Store(c, [s EXCEPT !.queue = q, !.status = st])
      PROVE  /\ pool' \subseteq Queues
             /\ wd' \in [Queues -> Session]
             /\ hash' \in [Queues -> {"sha256", "sm3"}]
             /\ sm' \in [Ctxs -> PrivCtx]
             /\ strayed' \in BOOLEAN
  <2>1. q \in Queues /\ HashFor(s, q) \in {"sha256", "sm3"}
    BY HashForType, <1>2
  <2>2. [s EXCEPT !.queue = q, !.status = st] \in PrivCtx
    BY <2>1, <1>2 DEF PrivCtx
  <2>3. NoSession \in Session
    BY DEF NoSession, Session, Keys
  <2> QED
    BY <1>2, <2>1, <2>2, <2>3 DEF TypeOK, Store, wd_sm2_put_engine_ctx
<1>3. ASSUME NEW q \in QueueFor(s), NewSession(c, q, s, HashFor(s, q)),
             hash' = [hash EXCEPT ![q] = HashFor(s, q)], UNCHANGED strayed
      PROVE  /\ pool' \subseteq Queues
             /\ wd' \in [Queues -> Session]
             /\ hash' \in [Queues -> {"sha256", "sm3"}]
             /\ sm' \in [Ctxs -> PrivCtx]
             /\ strayed' \in BOOLEAN
  <2>1. q \in Queues /\ HashFor(s, q) \in {"sha256", "sm3"}
    BY HashForType, <1>3
  <2>2. [s EXCEPT !.queue = q, !.pub = FALSE, !.pri = FALSE] \in PrivCtx
    BY <2>1 DEF PrivCtx
  <2>3. [pub |-> NoKey, pri |-> NoKey, hash |-> HashFor(s, q)] \in Session
    BY <2>1 DEF Session, Keys
  <2> QED
    BY <1>3, <2>1, <2>2, <2>3 DEF TypeOK, Store, NewSession
<1>4. \A q : [s EXCEPT !.queue = q] = [s EXCEPT !.queue = q, !.status = s.status]
  BY DEF PrivCtx
<1> QED
  BY <1>1, <1>2, <1>3, <1>4 DEF hpre_sm2_update_sess, PrivCtx

\* TypeOK is kept by every step.
LEMMA TypeStep ==
  ASSUME TypeOK, [Next]_vars
  PROVE  TypeOK'
<1>1. ASSUME NEW c \in Ctxs, hpre_sm2_init(c) PROVE TypeOK'
  <2>1. NewPrivCtx \in PrivCtx
    BY DEF NewPrivCtx, PrivCtx
  <2> QED
    BY <1>1, <2>1 DEF TypeOK, hpre_sm2_init, Store
<1>2. ASSUME NEW c \in Ctxs, hpre_sm2_cleanup(c) PROVE TypeOK'
  <2>1. Closed \in PrivCtx
    BY DEF Closed, NewPrivCtx, PrivCtx
  <2>2. NoSession \in Session
    BY DEF NoSession, Session, Keys
  <2>3. sm[c].queue \in Queues \cup {NoQueue}
    BY DEF TypeOK, PrivCtx
  <2> QED
    BY <1>2, <2>1, <2>2, <2>3 DEF TypeOK, hpre_sm2_cleanup, Store, wd_sm2_put_engine_ctx
<1>3. ASSUME NEW c \in Ctxs, NEW s \in PrivCtx, SetData(c, s) PROVE TypeOK'
  <2>1. CASE hpre_sm2_update_sess(c, s)
    BY <2>1, <1>3, UpdateType DEF TypeOK, SetData
  <2>2. CASE Store(c, s) /\ UNCHANGED <<pool, wd, hash, strayed>>
    BY <2>2, <1>3 DEF TypeOK, SetData, Store
  <2> QED
    BY <1>3, <2>1, <2>2 DEF SetData
<1>4. ASSUME NEW c \in Ctxs, NEW md \in Digests, hpre_sm2_ctrl(c, md) PROVE TypeOK'
  <2>1. [sm[c] EXCEPT !.md = md, !.changed = (md # sm[c].md)] \in PrivCtx
    BY DEF TypeOK, PrivCtx
  <2> QED
    BY <1>3, <1>4, <2>1 DEF hpre_sm2_ctrl
<1>5. ASSUME NEW c \in Ctxs, hpre_sm2_set_ctx_id(c) PROVE TypeOK'
  BY <1>3, <1>5 DEF hpre_sm2_set_ctx_id, TypeOK
<1>6. \A at \in {"idle", "check", "key", "do"}, key \in Kinds :
        [at |-> at, key |-> key] \in Call
  BY DEF Call
<1>7. ASSUME NEW c \in Ctxs, NEW key \in Kinds, SmctxCheck(c, key) PROVE TypeOK'
  <2>1. sm[c] \in PrivCtx
    BY DEF TypeOK
  <2>2. crashed' \in BOOLEAN /\ call' \in [Ctxs -> Call]
    BY <1>6, <1>7 DEF SmctxCheck, Goto, TypeOK
  <2>3. CASE hpre_sm2_update_sess(c, sm[c])
    BY <2>1, <2>2, <2>3, UpdateType DEF TypeOK
  <2>4. CASE UNCHANGED <<pool, wd, hash, sm, strayed>>
    BY <2>2, <2>4 DEF TypeOK
  <2> QED
    BY <1>7, <2>3, <2>4 DEF SmctxCheck
<1>8. ASSUME NEW c \in Ctxs, hpre_sm2_sign(c) PROVE TypeOK'
  <2>1. "pri" \in Kinds
    BY DEF Kinds
  <2>2. CASE SmctxCheck(c, "pri")
    BY <1>7, <2>1, <2>2
  <2>3. CASE UNCHANGED <<pool, wd, hash, sm, strayed>>
    BY <1>6, <1>8, <2>1, <2>2, <2>3 DEF hpre_sm2_sign, Goto, TypeOK
  <2> QED
    BY <1>8, <2>2, <2>3 DEF hpre_sm2_sign
<1>9. ASSUME NEW c \in Ctxs, Prepare(c) \/ KeyNotSet(c) \/ hpre_sm2_crypto(c)
      PROVE  TypeOK'
  <2>1. Idle \in Call /\ call[c].key \in Kinds
    BY DEF Idle, Call, Kinds, TypeOK
  <2> QED
    BY <1>6, <1>9, <2>1
    DEF Prepare, KeyNotSet, hpre_sm2_crypto, Goto, Return, TypeOK
<1>10. ASSUME NEW c \in Ctxs, UpdateKey(c, "pub") PROVE TypeOK'
  <2>1. sm' \in [Ctxs -> PrivCtx]
    <3>1. [sm[c] EXCEPT !["pub"] = TRUE] \in PrivCtx
      BY DEF TypeOK, PrivCtx
    <3> QED
      BY <1>10, <3>1 DEF UpdateKey, Store, TypeOK
  <2>2. wd' \in [Queues -> Session]
    <3>1. ASSUME NEW q \in Queues PROVE [wd[q] EXCEPT !["pub"] = c] \in Session
      BY DEF TypeOK, Session, Keys
    <3>2. \/ wd' = wd
          \/ wd' = [wd EXCEPT ![sm[c].queue] = [@ EXCEPT !["pub"] = c]]
      BY <1>10 DEF UpdateKey
    <3> QED
      BY <3>1, <3>2 DEF TypeOK
  <2>3. call' \in [Ctxs -> Call]
    BY <1>6, <1>10 DEF UpdateKey, Goto, TypeOK, Kinds
  <2> QED
    BY <1>10, <2>1, <2>2, <2>3 DEF UpdateKey, TypeOK
<1>11. ASSUME NEW c \in Ctxs, UpdateKey(c, "pri") PROVE TypeOK'
  <2>1. sm' \in [Ctxs -> PrivCtx]
    <3>1. [sm[c] EXCEPT !["pri"] = TRUE] \in PrivCtx
      BY DEF TypeOK, PrivCtx
    <3> QED
      BY <1>11, <3>1 DEF UpdateKey, Store, TypeOK
  <2>2. wd' \in [Queues -> Session]
    <3>1. ASSUME NEW q \in Queues PROVE [wd[q] EXCEPT !["pri"] = c] \in Session
      BY DEF TypeOK, Session, Keys
    <3>2. \/ wd' = wd
          \/ wd' = [wd EXCEPT ![sm[c].queue] = [@ EXCEPT !["pri"] = c]]
      BY <1>11 DEF UpdateKey
    <3> QED
      BY <3>1, <3>2 DEF TypeOK
  <2>3. call' \in [Ctxs -> Call]
    BY <1>6, <1>11 DEF UpdateKey, Goto, TypeOK, Kinds
  <2> QED
    BY <1>11, <2>1, <2>2, <2>3 DEF UpdateKey, TypeOK
<1>12. CASE UNCHANGED vars
  BY <1>12 DEF vars, TypeOK
<1> QED
  BY <1>1, <1>2, <1>4, <1>5, <1>7, <1>8, <1>9, <1>10, <1>11, <1>12
  DEF Next, hpre_sm2_encrypt, hpre_sm2_decrypt, hpre_sm2_verify, Kinds,
      hpre_sm2_update_public_key, hpre_sm2_update_private_key,
      hpre_sm2_digest_custom

\* The types hold at first.
LEMMA InitType == Init => TypeOK
<1>1. Idle \in Call
  BY DEF Idle, Call, Kinds
<1>2. SUFFICES ASSUME Init PROVE TypeOK
  OBVIOUS
<1>3. sm \in [Ctxs -> PrivCtx] /\ wd \in [Queues -> Session]
  BY <1>2, ClosedType DEF Init
<1> QED
  BY <1>1, <1>2, <1>3 DEF Init, TypeOK

\* The types of all variables, on every behaviour (sm2_hard.c).
THEOREM TypeCorrect == Spec => []TypeOK
BY InitType, TypeStep, PTL DEF Spec

-----------------------------------------------------------------------------
(* Queues and sessions *)

\* hpre_sm2_update_sess, called with what the context has except for the
\* digest, keeps every context's queue and session in order unless it puts a
\* queue back.
LEMMA UpdateOK ==
  ASSUME Inv, NEW c \in Ctxs, NEW s \in PrivCtx, s.queue = sm[c].queue,
         s.status = sm[c].status, hpre_sm2_update_sess(c, s), ~strayed'
  PROVE  /\ ~strayed
         /\ \A d \in Ctxs : SessionOK(d)'
         /\ \A d \in Ctxs \ {c} : sm'[d] = sm[d]
         /\ sm'[c].status = s.status
         /\ s.queue # NoQueue => sm'[c].queue # NoQueue
<1>1. CASE s.queue = NoQueue /\ Store(c, s) /\ UNCHANGED <<pool, wd, hash, strayed>>
  <2>1. sm' = [sm EXCEPT ![c] = s] /\ sm'[c] = s
    BY <1>1 DEF Store, Inv, TypeOK
  <2>2. ASSUME NEW d \in Ctxs PROVE SessionOK(d)'
    BY <1>1, <2>1 DEF SessionOK, Inv, TypeOK
  <2> QED
    BY <1>1, <2>1, <2>2 DEF Inv, TypeOK
<1>2. ASSUME NEW q \in QueueFor(s), NewSession(c, q, s, HashFor(s, q)),
             s.md # "other", UNCHANGED strayed
      PROVE  /\ ~strayed
             /\ \A d \in Ctxs : SessionOK(d)'
             /\ \A d \in Ctxs \ {c} : sm'[d] = sm[d]
             /\ sm'[c].status = s.status
             /\ s.queue # NoQueue => sm'[c].queue # NoQueue
  <2>1. /\ q \in Queues /\ q # NoQueue
        /\ HashFor(s, q) \in {"sha256", "sm3"}
        /\ s.md # "none" => HashFor(s, q) = s.md
    BY <1>2, HashForType, Sm2Assumption DEF Inv, PrivCtx
  <2>2. /\ sm'[c] = [s EXCEPT !.queue = q, !.pub = FALSE, !.pri = FALSE]
        /\ \A d \in Ctxs \ {c} : sm'[d] = sm[d]
    BY <1>2 DEF NewSession, Store, Inv, TypeOK
  <2>3. /\ sm'[c].queue = q /\ sm'[c].status = s.status /\ sm'[c].md = s.md
        /\ \A key \in Kinds : ~sm'[c][key]
    BY <2>2 DEF PrivCtx, Kinds
  <2>4. /\ wd'[q] = [pub |-> NoKey, pri |-> NoKey, hash |-> HashFor(s, q)]
        /\ \A r \in Queues \ {q} : wd'[r] = wd[r]
    BY <1>2, <2>1 DEF NewSession, Inv, TypeOK
  <2>5. q \notin pool' /\ pool' \subseteq pool
    BY <1>2 DEF NewSession, QueueFor, Inv, SessionOK
  <2>6. ASSUME NEW d \in Ctxs \ {c} PROVE sm[d].queue # q
    BY <1>2, <2>1 DEF QueueFor, Inv, SessionOK
  <2>7. SessionOK(c)'
    BY <2>1, <2>2, <2>3, <2>4, <2>5, <2>6 DEF SessionOK
  <2>8. ASSUME NEW d \in Ctxs \ {c} PROVE SessionOK(d)'
    <3>1. SessionOK(d) /\ sm'[d] = sm[d] /\ sm[d].queue # q
      BY <1>2, <2>2, <2>6 DEF Inv
    <3>2. sm[d].queue # NoQueue => wd'[sm[d].queue] = wd[sm[d].queue]
      BY <2>4, <3>1 DEF Inv, TypeOK, PrivCtx
    <3>3. ASSUME sm[d].queue # NoQueue, NEW e \in Ctxs, sm'[e].queue = sm[d].queue
          PROVE  d = e
      BY <2>2, <2>3, <3>1, <3>3 DEF SessionOK
    <3>4. sm[d].queue # NoQueue => sm[d].queue \notin pool'
      BY <2>5, <3>1 DEF SessionOK
    <3> QED
      BY <3>1, <3>2, <3>3, <3>4 DEF SessionOK
  <2> QED
    BY <1>2, <2>1, <2>2, <2>3, <2>7, <2>8
<1> QED
  BY <1>1, <1>2 DEF hpre_sm2_update_sess

\* A step that leaves pool, wd and sm alone keeps every session in order.
LEMMA SameSessions ==
  ASSUME UNCHANGED <<pool, wd, sm>>, NEW d \in Ctxs, SessionOK(d)
  PROVE  SessionOK(d)'
BY DEF SessionOK

\* SetData, called with a digest that is the same or marked as changed.
LEMMA SetDataOK ==
  ASSUME Inv, NEW c \in Ctxs, NEW s \in PrivCtx, Ready(c), SetData(c, s),
         ~strayed', s.queue = sm[c].queue, s.status = sm[c].status,
         s.pub = sm[c].pub, s.pri = sm[c].pri,
         s.md = sm[c].md \/ s.changed
  PROVE  \A d \in Ctxs : SessionOK(d)' /\ CallOK(d)'
<1>1. CASE hpre_sm2_update_sess(c, s)
  <2>1. /\ ~strayed
        /\ \A d \in Ctxs : SessionOK(d)'
        /\ \A d \in Ctxs \ {c} : sm'[d] = sm[d]
        /\ sm'[c].status = s.status
    BY <1>1, UpdateOK
  <2>2. CallOK(c)'
    BY <2>1 DEF Inv, CallOK, SetData, Ready, Idle
  <2>3. ASSUME NEW d \in Ctxs \ {c} PROVE CallOK(d)'
    BY <2>1 DEF Inv, CallOK, SetData
  <2> QED
    BY <2>1, <2>2, <2>3
<1>2. CASE ~(s.status = "succ" /\ s.changed)
  <2>1. sm' = [sm EXCEPT ![c] = s] /\ UNCHANGED <<pool, wd, call, strayed>>
    BY <1>2 DEF SetData, Store
  <2>2. s.md = sm[c].md
    <3>1. sm[c].status = "succ"
      BY <2>1 DEF Inv, CallOK, Ready, TypeOK, PrivCtx
    <3> QED
      BY <1>2, <3>1
  <2>3. sm'[c] = s /\ \A d \in Ctxs \ {c} : sm'[d] = sm[d]
    BY <2>1 DEF Inv, TypeOK
  <2>4. \A d \in Ctxs : sm'[d].queue = sm[d].queue /\ sm'[d].md = sm[d].md
    BY <2>2, <2>3
  <2>5. \A d \in Ctxs, key \in Kinds : sm'[d][key] = sm[d][key]
    BY <2>3 DEF Kinds
  <2>6. ASSUME NEW d \in Ctxs PROVE SessionOK(d)'
    BY <2>1, <2>4, <2>5 DEF Inv, SessionOK
  <2>7. ASSUME NEW d \in Ctxs PROVE CallOK(d)'
    BY <2>1, <2>3 DEF Inv, CallOK, Ready, Idle
  <2> QED
    BY <2>6, <2>7
<1> QED
  BY <1>1, <1>2 DEF SetData

\* SmctxCheck gives the call a queue, or stops everything.
LEMMA CheckOK ==
  ASSUME Inv, NEW c \in Ctxs, NEW key \in Kinds, SmctxCheck(c, key), ~strayed'
  PROVE  \A d \in Ctxs : SessionOK(d)' /\ CallOK(d)'
<1>1. /\ ~strayed
      /\ \A d \in Ctxs : SessionOK(d)'
      /\ \A d \in Ctxs \ {c} : sm'[d] = sm[d]
      /\ sm'[c].status = sm[c].status
  <2>1. CASE hpre_sm2_update_sess(c, sm[c])
    BY <2>1, UpdateOK DEF Inv, TypeOK
  <2>2. CASE UNCHANGED <<pool, wd, hash, sm, strayed>>
    BY <2>2, SameSessions DEF Inv
  <2> QED
    BY <2>1, <2>2 DEF SmctxCheck
<1>2. \/ UNCHANGED call
      \/ /\ sm'[c].queue # NoQueue
         /\ call' = [call EXCEPT ![c] = [at |-> "check", key |-> key]]
  BY DEF SmctxCheck, Goto
<1>3. ASSUME NEW d \in Ctxs \ {c} PROVE CallOK(d)'
  BY <1>1, <1>2 DEF Inv, TypeOK, CallOK
<1>4. CallOK(c)'
  BY <1>1, <1>2 DEF Inv, TypeOK, CallOK, SmctxCheck, Ready, Idle
<1> QED
  BY <1>1, <1>3, <1>4

\* UpdateKey puts the key into the session of the context alone.
LEMMA KeyOK ==
  ASSUME Inv, NEW c \in Ctxs, NEW key \in Kinds, UpdateKey(c, key), ~strayed'
  PROVE  \A d \in Ctxs : SessionOK(d)' /\ CallOK(d)'
<1>1. /\ ~strayed /\ UNCHANGED pool
      /\ call[c].at = "key" /\ call[c].key = key
      /\ call' = [call EXCEPT ![c] = [at |-> "do", key |-> key]]
  BY DEF UpdateKey, At, Goto
<1>2. /\ sm[c].queue \in Queues /\ sm[c].queue # NoQueue
      /\ ~NoSessionOf(c)
  BY <1>1, Sm2Assumption
  DEF Inv, TypeOK, PrivCtx, CallOK, SessionOK, NoSessionOf, NoSession
<1>3. /\ \A d \in Ctxs : /\ sm'[d].queue = sm[d].queue /\ sm'[d].md = sm[d].md
                         /\ sm'[d].status = sm[d].status
      /\ sm'[c][key]
      /\ \A d \in Ctxs, k \in Kinds : d # c \/ k # key => sm'[d][k] = sm[d][k]
  BY DEF UpdateKey, Store, Inv, TypeOK, PrivCtx, Kinds
<1>4. /\ \A q \in Queues : wd'[q].hash = wd[q].hash
      /\ \A q \in Queues, k \in Kinds :
           q # sm[c].queue \/ k # key => wd'[q][k] = wd[q][k]
      /\ "set_key" \notin Failing /\ ~sm[c][key] => wd'[sm[c].queue][key] = c
      /\ sm[c][key] => wd' = wd
  BY <1>2 DEF UpdateKey, Inv, TypeOK, Session, Kinds
<1>5. ASSUME NEW d \in Ctxs PROVE SessionOK(d)'
  <2>1. SUFFICES ASSUME sm[d].queue # NoQueue PROVE SessionOK(d)'
    BY <1>3 DEF SessionOK
  <2>2. sm[d].queue \in Queues /\ SessionOK(d)
    BY <1>1, <2>1 DEF Inv, TypeOK, PrivCtx
  <2>3. /\ sm[d].queue \notin pool'
        /\ \A e \in Ctxs : sm'[e].queue = sm'[d].queue => d = e
    BY <1>1, <1>3, <2>1, <2>2 DEF SessionOK
  <2>4. /\ wd'[sm[d].queue].hash # "none"
        /\ sm'[d].md # "none" => wd'[sm[d].queue].hash = sm'[d].md
    BY <1>3, <1>4, <2>1, <2>2 DEF SessionOK
  <2>5. ASSUME "set_key" \notin Failing, NEW k \in Kinds, sm'[d][k]
        PROVE  wd'[sm[d].queue][k] = d
    <3>1. CASE d = c /\ k = key
      BY <1>4, <2>1, <2>2, <2>5, <3>1 DEF SessionOK
    <3>2. CASE d = c /\ k # key
      BY <1>3, <1>4, <2>1, <2>2, <2>5, <3>2 DEF SessionOK
    <3>3. CASE d # c
      <4>1. sm[c].queue # sm[d].queue
        BY <2>1, <2>2, <3>3 DEF SessionOK
      <4> QED
        BY <1>3, <1>4, <2>1, <2>2, <2>5, <3>3, <4>1 DEF SessionOK
    <3> QED
      BY <3>1, <3>2, <3>3
  <2> QED
    BY <1>3, <2>3, <2>4, <2>5 DEF SessionOK
<1>6. ASSUME NEW d \in Ctxs \ {c} PROVE CallOK(d)'
  <2>1. call'[d] = call[d] /\ CallOK(d) /\ call[d].key \in Kinds
    BY <1>1 DEF Inv, TypeOK, Call
  <2> QED
    BY <1>3, <2>1 DEF CallOK
<1>7. CallOK(c)'
  <2>1. call'[c] = [at |-> "do", key |-> key] /\ CallOK(c)
    BY <1>1 DEF Inv, TypeOK
  <2>2. sm[c].status # "closed"
    BY <1>1, <2>1 DEF CallOK, Idle
  <2> QED
    BY <1>2, <1>3, <2>1, <2>2 DEF CallOK
<1> QED
  BY <1>5, <1>6, <1>7

\* Every step keeps the invariant.
LEMMA InvStep ==
  ASSUME Inv, [Next]_vars
  PROVE  Inv'
<1>1. TypeOK'
  BY TypeStep DEF Inv
<1>2. SUFFICES ASSUME ~strayed' PROVE \A d \in Ctxs : SessionOK(d)' /\ CallOK(d)'
  BY <1>1 DEF Inv
<1>3. ASSUME NEW c \in Ctxs, hpre_sm2_init(c)
      PROVE  \A d \in Ctxs : SessionOK(d)' /\ CallOK(d)'
  <2>1. \/ UNCHANGED sm
        \/ sm' = [sm EXCEPT ![c] = NewPrivCtx]
    BY <1>3 DEF hpre_sm2_init, Store
  <2>2. /\ UNCHANGED <<pool, wd, call, strayed>> /\ call[c] = Idle
    BY <1>2, <1>3 DEF hpre_sm2_init, Inv, CallOK
  <2>3. NewPrivCtx.queue = NoQueue /\ NewPrivCtx.status = "succ"
    BY DEF NewPrivCtx
  <2>4. ASSUME NEW d \in Ctxs PROVE SessionOK(d)'
    BY <1>2, <2>1, <2>2, <2>3 DEF Inv, TypeOK, SessionOK
  <2>5. ASSUME NEW d \in Ctxs PROVE CallOK(d)'
    BY <1>2, <2>1, <2>2, <2>3 DEF Inv, TypeOK, CallOK, Idle
  <2> QED
    BY <2>4, <2>5
<1>4. ASSUME NEW c \in Ctxs, hpre_sm2_cleanup(c)
      PROVE  \A d \in Ctxs : SessionOK(d)' /\ CallOK(d)'
  <2>1. /\ sm' = [sm EXCEPT ![c] = Closed]
        /\ UNCHANGED <<call, strayed>> /\ call[c] = Idle
    BY <1>4 DEF hpre_sm2_cleanup, Store, Ready
  <2>2. Closed.queue = NoQueue /\ Closed.status = "closed"
    BY DEF Closed, NewPrivCtx
  <2>3. \/ UNCHANGED <<pool, wd>>
        \/ /\ sm[c].queue # NoQueue
           /\ pool' = pool \cup {sm[c].queue}
           /\ wd' = [wd EXCEPT ![sm[c].queue] = NoSession]
    BY <1>4 DEF hpre_sm2_cleanup, wd_sm2_put_engine_ctx
  <2>4. ASSUME NEW d \in Ctxs \ {c}, sm[d].queue # NoQueue
        PROVE  sm[d].queue \notin pool' /\ wd'[sm[d].queue] = wd[sm[d].queue]
    <3>1. sm[d].queue \in Queues /\ sm[d].queue \notin pool
      BY <1>2, <2>1, <2>4 DEF Inv, TypeOK, PrivCtx, SessionOK
    <3>2. sm[c].queue # sm[d].queue
      BY <1>2, <2>1, <2>4 DEF Inv, SessionOK
    <3> QED
      BY <2>3, <3>1, <3>2 DEF Inv, TypeOK
  <2>5. ASSUME NEW d \in Ctxs PROVE SessionOK(d)'
    BY <1>2, <2>1, <2>2, <2>4 DEF Inv, TypeOK, SessionOK
  <2>6. ASSUME NEW d \in Ctxs PROVE CallOK(d)'
    BY <1>2, <2>1, <2>2 DEF Inv, TypeOK, CallOK, Idle
  <2> QED
    BY <2>5, <2>6
<1>5. ASSUME NEW c \in Ctxs, NEW md \in Digests, hpre_sm2_ctrl(c, md)
      PROVE  \A d \in Ctxs : SessionOK(d)' /\ CallOK(d)'
  <2> DEFINE s == [sm[c] EXCEPT !.md = md, !.changed = (md # sm[c].md)]
  <2>1. /\ s \in PrivCtx /\ s.queue = sm[c].queue /\ s.status = sm[c].status
        /\ s.pub = sm[c].pub /\ s.pri = sm[c].pri
        /\ s.md = sm[c].md \/ s.changed
    BY DEF Inv, TypeOK, PrivCtx
  <2>2. Ready(c) /\ SetData(c, s)
    BY <1>5 DEF hpre_sm2_ctrl
  <2> QED
    BY <1>2, <2>1, <2>2, SetDataOK
<1>6. ASSUME NEW c \in Ctxs, hpre_sm2_set_ctx_id(c)
      PROVE  \A d \in Ctxs : SessionOK(d)' /\ CallOK(d)'
  BY <1>2, <1>6, SetDataOK DEF hpre_sm2_set_ctx_id, Inv, TypeOK
<1>7. ASSUME NEW c \in Ctxs, \E key \in Kinds : SmctxCheck(c, key)
      PROVE  \A d \in Ctxs : SessionOK(d)' /\ CallOK(d)'
  BY <1>2, <1>7, CheckOK
<1>8. ASSUME NEW c \in Ctxs, hpre_sm2_sign(c)
      PROVE  \A d \in Ctxs : SessionOK(d)' /\ CallOK(d)'
  <2>1. CASE SmctxCheck(c, "pri")
    BY <1>7, <2>1 DEF Kinds
  <2>2. CASE UNCHANGED <<pool, wd, hash, sm, strayed>> /\ ~SmctxCheck(c, "pri")
    <3>1. \/ UNCHANGED call
          \/ /\ sm[c].queue # NoQueue
             /\ call' = [call EXCEPT ![c] = [at |-> "check", key |-> "pri"]]
      BY <1>8, <2>2 DEF hpre_sm2_sign, Goto
    <3>2. sm[c].status = "succ" /\ UNCHANGED <<pool, wd, sm, strayed>>
      BY <1>8, <2>2 DEF hpre_sm2_sign
    <3>3. ASSUME NEW d \in Ctxs PROVE SessionOK(d)'
      BY <1>2, <3>2, SameSessions DEF Inv
    <3>4. ASSUME NEW d \in Ctxs PROVE CallOK(d)'
      BY <1>2, <3>1, <3>2 DEF Inv, TypeOK, CallOK
    <3> QED
      BY <3>3, <3>4
  <2> QED
    BY <1>8, <2>1, <2>2 DEF hpre_sm2_sign
<1>9. ASSUME NEW c \in Ctxs, Prepare(c) \/ KeyNotSet(c) \/ hpre_sm2_crypto(c)
      PROVE  \A d \in Ctxs : SessionOK(d)' /\ CallOK(d)'
  <2>1. UNCHANGED <<pool, wd, sm, strayed>> /\ call[c].at # "idle"
    BY <1>9 DEF Prepare, KeyNotSet, hpre_sm2_crypto, At
  <2>2. \/ call' = [call EXCEPT ![c] = Idle]
        \/ call' = [call EXCEPT ![c] = [at |-> "key", key |-> call[c].key]]
    BY <1>9 DEF Prepare, KeyNotSet, hpre_sm2_crypto, Return, Goto
  <2>3. ASSUME NEW d \in Ctxs PROVE SessionOK(d)'
    BY <1>2, <2>1, SameSessions DEF Inv
  <2>4. ASSUME NEW d \in Ctxs PROVE CallOK(d)'
    BY <1>2, <2>1, <2>2 DEF Inv, TypeOK, CallOK, Idle
  <2> QED
    BY <2>3, <2>4
<1>10. ASSUME NEW c \in Ctxs, \E key \in Kinds : UpdateKey(c, key)
       PROVE  \A d \in Ctxs : SessionOK(d)' /\ CallOK(d)'
  BY <1>2, <1>10, KeyOK
<1>11. CASE UNCHANGED vars
  BY <1>2, <1>11 DEF vars, Inv, SessionOK, CallOK
<1> QED
  BY <1>3, <1>4, <1>5, <1>6, <1>7, <1>8, <1>9, <1>10, <1>11
  DEF Next, hpre_sm2_encrypt, hpre_sm2_decrypt, hpre_sm2_verify, Kinds,
      hpre_sm2_update_public_key, hpre_sm2_update_private_key,
      hpre_sm2_digest_custom

\* The invariant holds at first.
LEMMA InitInv == Init => Inv
<1>1. Closed.queue = NoQueue /\ Closed.status = "closed"
  BY DEF Closed, NewPrivCtx
<1> QED
  BY <1>1, InitType DEF Init, Inv, SessionOK, CallOK, Idle

\* As long as no session failed, a queue is either in the pool or with one
\* context (wd_sm2_put_engine_ctx and its callers).
THEOREM QueuesOwnedCorrect == Spec => []QueuesOwned
<1>1. Inv => QueuesOwned
  BY Sm2Assumption DEF Inv, SessionOK, QueuesOwned, Holders
<1> QED
  BY <1>1, InitInv, InvStep, PTL DEF Spec

\* As long as no session failed, and if the driver accepts the keys, the
\* hardware computes with the key and the digest of the context that calls it
\* (hpre_sm2_update_sess and hpre_sm2_update_private_key).
THEOREM OwnSessionCorrect ==
  ASSUME "set_key" \notin Failing
  PROVE  Spec => []OwnSession
<1>1. Inv => OwnSession
  <2>1. SUFFICES ASSUME Inv, ~strayed, NEW c \in Ctxs, call[c].at = "do"
                 PROVE  /\ wd[sm[c].queue][call[c].key] = c
                        /\ sm[c].md # "none" => wd[sm[c].queue].hash = sm[c].md
    BY DEF OwnSession
  <2>2. SessionOK(c) /\ CallOK(c) /\ call[c].key \in Kinds
    BY <2>1 DEF Inv, TypeOK, Call
  <2> QED
    BY <2>1, <2>2 DEF SessionOK, CallOK
<1> QED
  BY <1>1, InitInv, InvStep, PTL DEF Spec

-----------------------------------------------------------------------------
(* No queue is lost *)

\* A closed context has no queue.
KeptInv ==
  /\ TypeOK /\ QueuesKept
  /\ \A c \in Ctxs : sm[c].status = "closed" => sm[c].queue = NoQueue

\* A step that only gives c a queue, from the pool or for none, and takes
\* none but that queue out of the pool, loses none.
LEMMA GivenOrPut ==
  ASSUME KeptInv, TypeOK', NEW c \in Ctxs, NEW q,
         \A d \in Ctxs \ {c} : sm'[d] = sm[d],
         sm[c].queue \in {NoQueue, q} \/ sm[c].queue \in pool',
         pool \subseteq pool' \cup {q},
         sm'[c].queue = q \/ q = NoQueue,
         sm'[c].status = "closed" => sm'[c].queue = NoQueue
  PROVE  KeptInv'
<1>1. ASSUME NEW r \in Queues PROVE (r \in pool \/ Holders(r) # {})'
  <2>1. CASE r \in pool
    BY <2>1, Sm2Assumption DEF Holders
  <2>2. CASE \E d \in Ctxs : sm[d].queue = r
    BY <2>2, Sm2Assumption DEF Holders
  <2> QED
    BY <2>1, <2>2 DEF KeptInv, QueuesKept, Holders
<1> QED
  BY <1>1 DEF KeptInv, QueuesKept

\* hpre_sm2_update_sess loses no queue.
LEMMA UpdateKept ==
  ASSUME KeptInv, TypeOK', NEW c \in Ctxs, NEW s \in PrivCtx,
         s.queue = sm[c].queue, s.status = sm[c].status,
         s.status # "closed", hpre_sm2_update_sess(c, s)
  PROVE  KeptInv'
<1>1. CASE s.queue = NoQueue /\ Store(c, s) /\ UNCHANGED pool
  <2>1. sm'[c] = s /\ \A d \in Ctxs \ {c} : sm'[d] = sm[d]
    BY <1>1 DEF Store, KeptInv, TypeOK
  <2> QED
    BY <1>1, <2>1, GivenOrPut
<1>2. ASSUME NEW q \in QueueFor(s), NEW t, t.queue = q, t.status # "closed",
             Store(c, t), pool \subseteq pool' \cup {q}
      PROVE  KeptInv'
  <2>1. sm'[c] = t /\ \A d \in Ctxs \ {c} : sm'[d] = sm[d]
    BY <1>2 DEF Store, KeptInv, TypeOK
  <2>2. sm[c].queue \in {NoQueue, q}
    BY <1>2 DEF QueueFor
  <2> QED
    BY <1>2, <2>1, <2>2, GivenOrPut
<1>3. ASSUME NEW q \in QueueFor(s)
      PROVE  LET t1 == [s EXCEPT !.queue = q]
                 t2 == [s EXCEPT !.queue = q, !.status = "fail"]
                 t3 == [s EXCEPT !.queue = q, !.pub = FALSE, !.pri = FALSE]
             IN  \A t \in {t1, t2, t3} : t.queue = q /\ t.status # "closed"
  BY DEF PrivCtx
<1>4. ASSUME NEW q \in QueueFor(s), wd_sm2_put_engine_ctx(q)
      PROVE  pool \subseteq pool' \cup {q}
  BY <1>4 DEF wd_sm2_put_engine_ctx
<1>5. ASSUME NEW q \in QueueFor(s), NewSession(c, q, s, HashFor(s, q))
      PROVE  pool \subseteq pool' \cup {q}
  BY <1>5 DEF NewSession
<1> QED
  BY <1>1, <1>2, <1>3, <1>4, <1>5 DEF hpre_sm2_update_sess, NewSession

\* No queue is lost, whatever fails (wd_sm2_put_engine_ctx and its callers).
THEOREM QueuesKeptCorrect == Spec => []QueuesKept
<1>1. Init => KeptInv
  BY InitType DEF Init, KeptInv, QueuesKept, Closed, NewPrivCtx
<1>2. ASSUME KeptInv, [Next]_vars PROVE KeptInv'
  <2>1. TypeOK'
    BY <1>2, TypeStep DEF KeptInv
  <2>2. ASSUME NEW c \in Ctxs, hpre_sm2_init(c) PROVE KeptInv'
    <3>1. NewPrivCtx.queue = NoQueue /\ NewPrivCtx.status = "succ"
      BY DEF NewPrivCtx
    <3>2. /\ UNCHANGED pool /\ sm[c].queue = NoQueue
          /\ sm' = [sm EXCEPT ![c] = NewPrivCtx] \/ UNCHANGED sm
      BY <1>2, <2>2 DEF hpre_sm2_init, Store, KeptInv
    <3> QED
      BY <1>2, <2>1, <3>1, <3>2, GivenOrPut DEF KeptInv, TypeOK
  <2>3. ASSUME NEW c \in Ctxs, hpre_sm2_cleanup(c) PROVE KeptInv'
    <3>1. Closed.queue = NoQueue /\ Closed.status = "closed"
      BY DEF Closed, NewPrivCtx
    <3>2. /\ sm[c].queue = NoQueue \/ sm[c].queue \in pool'
          /\ pool \subseteq pool'
          /\ sm' = [sm EXCEPT ![c] = Closed]
      BY <2>3 DEF hpre_sm2_cleanup, Store, wd_sm2_put_engine_ctx
    <3> QED
      BY <1>2, <2>1, <3>1, <3>2, GivenOrPut DEF KeptInv, TypeOK
  <2>4. ASSUME UNCHANGED pool,
               \A d \in Ctxs : sm'[d].queue = sm[d].queue /\ sm'[d].status = sm[d].status
        PROVE  KeptInv'
    BY <1>2, <2>1, <2>4 DEF KeptInv, QueuesKept, Holders
  <2>5. ASSUME NEW c \in Ctxs, NEW s \in PrivCtx, Ready(c), SetData(c, s),
               s.queue = sm[c].queue, s.status = sm[c].status
        PROVE  KeptInv'
    <3>1. CASE hpre_sm2_update_sess(c, s)
      BY <1>2, <2>1, <2>5, <3>1, UpdateKept DEF Ready
    <3>2. CASE Store(c, s) /\ UNCHANGED pool
      BY <1>2, <2>4, <2>5, <3>2 DEF Store, KeptInv, TypeOK
    <3> QED
      BY <2>5, <3>1, <3>2 DEF SetData
  <2>6. ASSUME NEW c \in Ctxs, NEW md \in Digests, hpre_sm2_ctrl(c, md)
        PROVE  KeptInv'
    <3> DEFINE s == [sm[c] EXCEPT !.md = md, !.changed = (md # sm[c].md)]
    <3>1. s \in PrivCtx /\ s.queue = sm[c].queue /\ s.status = sm[c].status
      BY <1>2 DEF KeptInv, TypeOK, PrivCtx
    <3> QED
      BY <2>5, <2>6, <3>1 DEF hpre_sm2_ctrl
  <2>7. ASSUME NEW c \in Ctxs, hpre_sm2_set_ctx_id(c) PROVE KeptInv'
    BY <1>2, <2>5, <2>7 DEF hpre_sm2_set_ctx_id, KeptInv, TypeOK
  <2>8. ASSUME NEW c \in Ctxs, \E key \in Kinds : SmctxCheck(c, key) PROVE KeptInv'
    <3>1. CASE hpre_sm2_update_sess(c, sm[c]) /\ sm[c].status # "closed"
      BY <1>2, <2>1, <3>1, UpdateKept DEF KeptInv, TypeOK
    <3>2. CASE UNCHANGED <<pool, sm>>
      BY <2>4, <3>2
    <3> QED
      BY <2>8, <3>1, <3>2 DEF SmctxCheck, Ready
  <2>9. ASSUME NEW c \in Ctxs, hpre_sm2_sign(c) PROVE KeptInv'
    BY <2>4, <2>8, <2>9 DEF hpre_sm2_sign, Kinds
  <2>10. ASSUME NEW c \in Ctxs, Prepare(c) \/ KeyNotSet(c) \/ hpre_sm2_crypto(c)
         PROVE  KeptInv'
    BY <2>4, <2>10 DEF Prepare, KeyNotSet, hpre_sm2_crypto
  <2>11. ASSUME NEW c \in Ctxs, NEW key \in Kinds, UpdateKey(c, key) PROVE KeptInv'
    <3>1. UNCHANGED sm \/ sm' = [sm EXCEPT ![c] = [@ EXCEPT ![key] = TRUE]]
      BY <2>11 DEF UpdateKey, Store
    <3>2. UNCHANGED pool
      BY <2>11 DEF UpdateKey
    <3> QED
      BY <1>2, <2>4, <3>1, <3>2 DEF KeptInv, TypeOK, PrivCtx, Kinds
  <2>12. CASE UNCHANGED vars
    BY <2>4, <2>12 DEF vars
  <2> QED
    BY <1>2, <2>2, <2>3, <2>6, <2>7, <2>8, <2>9, <2>10, <2>11, <2>12
    DEF Next, hpre_sm2_encrypt, hpre_sm2_decrypt, hpre_sm2_verify, Kinds,
        hpre_sm2_update_public_key, hpre_sm2_update_private_key,
        hpre_sm2_digest_custom
<1> QED
  BY <1>1, <1>2, PTL DEF Spec, KeptInv
=============================================================================
