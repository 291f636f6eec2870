----------------------------- MODULE Sm2Engine -----------------------------
(***************************************************************************)
(* The SM2 adapter of the OpenSSL engine (sm2_hard.c).  An EVP_PKEY_CTX of *)
(* the application has a hpre_sm2_priv_ctx, and that takes a hardware      *)
(* queue from a pool shared by all of them.  With the queue come its       *)
(* engine context and, in it, a session (wd_ctx) that holds the keys and   *)
(* the digest of later calls.  The priv_ctx remembers which of its keys    *)
(* are in the session, so that they are set only once.                     *)
(*                                                                         *)
(* Contexts are used by different threads, one call of a context at a      *)
(* time.  A call that the hardware cannot serve is served in software.     *)
(***************************************************************************)
EXTENDS Integers, FiniteSets

CONSTANTS
  Ctxs,     \* EVP_PKEY_CTXs, each with a key pair of its own
  Queues,   \* hardware queues of the pool
  Digests,  \* digests the application sets: "sm3", and "other" ones
  Failing   \* calls that may fail: "calloc" of a priv_ctx, "malloc" of an
            \* engine context, "session", "set_key"

NoQueue == "noqueue"
NoKey == "nokey"
Kinds == {"pub", "pri"}   \* the key that a call uses
Keys == Ctxs \cup {NoKey}
Session == [pub : Keys, pri : Keys, hash : {"none", "sha256", "sm3"}]
NoSession == [pub |-> NoKey, pri |-> NoKey, hash |-> "none"]   \* wd_ctx = NULL

ASSUME Sm2Assumption ==
  /\ Digests \subseteq {"sm3", "other"}
  /\ Failing \subseteq {"calloc", "malloc", "session", "set_key"}
  /\ NoQueue \notin Queues /\ NoKey \notin Ctxs

VARIABLES
  pool,     \* queues in g_hpre_sm2_qnode_pool
  wd,       \* the session in the engine context of each queue
  hash,     \* setup.hash.type in the engine context of each queue
  sm,       \* the hpre_sm2_priv_ctx of each context
  call,     \* the call in progress of each context
  crashed,  \* a null e_hpre_sm2_ctx was followed
  strayed   \* history: a context put its queue back and kept the pointer

vars == <<pool, wd, hash, sm, call, crashed, strayed>>

\* calloc: no queue, no digest (nid 0), no keys in the session.
NewPrivCtx == [status |-> "succ", queue |-> NoQueue, md |-> "none",
               changed |-> FALSE, pub |-> FALSE, pri |-> FALSE]
Closed == [NewPrivCtx EXCEPT !.status = "closed"]
Idle == [at |-> "idle", key |-> "pub"]

Init ==
  /\ pool = Queues
  /\ wd = [q \in Queues |-> NoSession]
  /\ hash = [q \in Queues |-> "sha256"]
  /\ sm = [c \in Ctxs |-> Closed]
  /\ call = [c \in Ctxs |-> Idle]
  /\ crashed = FALSE /\ strayed = FALSE

PrivCtx == [status : {"closed", "succ", "fail"}, queue : Queues \cup {NoQueue},
            md : Digests \cup {"none"}, changed : BOOLEAN,
            pub : BOOLEAN, pri : BOOLEAN]
Call == [at : {"idle", "check", "key", "do"}, key : Kinds]

TypeOK ==
  /\ pool \subseteq Queues
  /\ wd \in [Queues -> Session]
  /\ hash \in [Queues -> {"sha256", "sm3"}]
  /\ sm \in [Ctxs -> PrivCtx]
  /\ call \in [Ctxs -> Call]
  /\ crashed \in BOOLEAN /\ strayed \in BOOLEAN

Ready(c) == ~crashed /\ sm[c].status # "closed" /\ call[c] = Idle
Store(c, s) == sm' = [sm EXCEPT ![c] = s]
Goto(c, at, key) == call' = [call EXCEPT ![c] = [at |-> at, key |-> key]]
Return(c) == call' = [call EXCEPT ![c] = Idle]

-----------------------------------------------------------------------------
(* Queues and sessions *)

\* The session is deleted and the queue put back; the caller's pointer to
\* the engine context stays.
wd_sm2_put_engine_ctx(q) ==
  /\ pool' = pool \cup {q}
  /\ wd' = [wd EXCEPT ![q] = NoSession]

\* Mutants of NewSession: the context still believes that its keys are in
\* the session; the old session is deleted by putting the queue back.
SessionKeepsKeys(c, q, s, h) ==
  /\ wd' = [wd EXCEPT ![q] = [pub |-> NoKey, pri |-> NoKey, hash |-> h]]
  /\ pool' = IF s.queue = NoQueue THEN pool \ {q} ELSE pool
  /\ Store(c, [s EXCEPT !.queue = q])
SessionPutsQueue(c, q, s, h) ==
  /\ wd' = [wd EXCEPT ![q] = [pub |-> NoKey, pri |-> NoKey, hash |-> h]]
  /\ pool' = IF s.queue = NoQueue THEN pool \ {q} ELSE pool \cup {q}
  /\ Store(c, [s EXCEPT !.queue = q, !.pub = FALSE, !.pri = FALSE])

\* A new session replaces the one in the engine context, and has no keys.
NewSession(c, q, s, h) ==
  /\ wd' = [wd EXCEPT ![q] = [pub |-> NoKey, pri |-> NoKey, hash |-> h]]
  /\ pool' = IF s.queue = NoQueue THEN pool \ {q} ELSE pool
  /\ Store(c, [s EXCEPT !.queue = q, !.pub = FALSE, !.pri = FALSE])

\* The queue of s, or one from the pool.
QueueFor(s) == IF s.queue = NoQueue THEN pool ELSE {s.queue}

\* The digest that the session is set up with: the one chosen, else what the
\* engine context has, which is SHA256 when it was just taken.
HashFor(s, q) == IF s.md = "sm3" THEN "sm3"
                 ELSE IF s.queue = NoQueue THEN "sha256" ELSE hash[q]

\* A priv_ctx with contents s gets a queue if it has none, and a session.
\* When that fails with the queue in hand, the queue is put back.
hpre_sm2_update_sess(c, s) ==
  \/ /\ s.queue = NoQueue
     /\ pool # {} => "malloc" \in Failing
     /\ Store(c, s)
     /\ UNCHANGED <<pool, wd, hash, strayed>>
  \/ \E q \in QueueFor(s) :
       \/ /\ s.md = "other"
          /\ wd_sm2_put_engine_ctx(q) /\ strayed' = TRUE
          /\ hash' = [hash EXCEPT ![q] = HashFor(s, q)]
          /\ Store(c, [s EXCEPT !.queue = q])
       \/ /\ s.md # "other"
          /\ hash' = [hash EXCEPT ![q] = HashFor(s, q)]
          /\ \/ NewSession(c, q, s, HashFor(s, q)) /\ UNCHANGED strayed
             \/ /\ "session" \in Failing
                /\ wd_sm2_put_engine_ctx(q) /\ strayed' = TRUE
                /\ Store(c, [s EXCEPT !.queue = q, !.status = "fail"])

-----------------------------------------------------------------------------
(* The life of a context, and its controls *)

hpre_sm2_init(c) ==
  /\ ~crashed /\ sm[c].status = "closed"
  /\ \/ Store(c, NewPrivCtx)
     \/ "calloc" \in Failing /\ UNCHANGED sm
  /\ UNCHANGED <<pool, wd, hash, call, crashed, strayed>>

\* Mutant: a null pointer is put back like a queue.
CleanupUnchecked(c) ==
  /\ Ready(c)
  /\ pool' = pool \cup {sm[c].queue}
  /\ wd' = [q \in Queues |-> IF q = sm[c].queue THEN NoSession ELSE wd[q]]
  /\ Store(c, Closed)
  /\ UNCHANGED <<hash, call, crashed, strayed>>

\* Mutant: the session is deleted but the queue not put back.
CleanupKeepsQueue(c) ==
  /\ Ready(c)
  /\ wd' = [q \in Queues |-> IF q = sm[c].queue THEN NoSession ELSE wd[q]]
  /\ Store(c, Closed)
  /\ UNCHANGED <<pool, hash, call, crashed, strayed>>

hpre_sm2_cleanup(c) ==
  /\ Ready(c)
  /\ \/ sm[c].queue = NoQueue /\ UNCHANGED <<pool, wd>>
     \/ sm[c].queue # NoQueue /\ wd_sm2_put_engine_ctx(sm[c].queue)
  /\ Store(c, Closed)
  /\ UNCHANGED <<hash, call, crashed, strayed>>

\* set_data: while the last digest set was a new one, the session is made
\* anew, if no session has failed before.
SetData(c, s) ==
  /\ IF s.status = "succ" /\ s.changed
     THEN hpre_sm2_update_sess(c, s)
     ELSE Store(c, s) /\ UNCHANGED <<pool, wd, hash, strayed>>
  /\ UNCHANGED <<call, crashed>>

\* EVP_PKEY_CTRL_MD.
hpre_sm2_ctrl(c, md) ==
  /\ Ready(c)
  /\ SetData(c, [sm[c] EXCEPT !.md = md, !.changed = (md # sm[c].md)])

\* EVP_PKEY_CTRL_SET1_ID.
hpre_sm2_set_ctx_id(c) == Ready(c) /\ SetData(c, sm[c])

\* Sets the default ID if none is set, and hashes it in software.
hpre_sm2_digest_custom(c) == hpre_sm2_set_ctx_id(c)

-----------------------------------------------------------------------------
(* Encryption, decryption, signature and verification *)

\* hpre_sm2_smctx_check: the first call of a context that has no queue tries
\* to get one, and follows the pointer whether it did or not.
SmctxCheck(c, key) ==
  /\ Ready(c)
  /\ IF sm[c].queue = NoQueue
     THEN hpre_sm2_update_sess(c, sm[c])
     ELSE UNCHANGED <<pool, wd, hash, sm, strayed>>
  /\ IF sm'[c].queue = NoQueue
     THEN crashed' = TRUE /\ UNCHANGED call
     ELSE Goto(c, "check", key) /\ UNCHANGED crashed

hpre_sm2_encrypt(c) == SmctxCheck(c, "pub")
hpre_sm2_decrypt(c) == SmctxCheck(c, "pri")
hpre_sm2_verify(c) == SmctxCheck(c, "pub")

\* A query of the size (sig = NULL) goes on without the check.
hpre_sm2_sign(c) ==
  \/ SmctxCheck(c, "pri")
  \/ /\ Ready(c) /\ sm[c].status = "succ"
     /\ IF sm[c].queue = NoQueue
        THEN crashed' = TRUE /\ UNCHANGED call
        ELSE Goto(c, "check", "pri") /\ UNCHANGED crashed
     /\ UNCHANGED <<pool, wd, hash, sm, strayed>>

At(c, at) == ~crashed /\ call[c].at = at
NoSessionOf(c) == wd[sm[c].queue] = NoSession

\* The rest of the check, and the buffers of the call: a context that has no
\* session or whose session failed, or arguments out of range, go to software.
Prepare(c) ==
  /\ At(c, "check")
  /\ \/ Return(c)
     \/ /\ ~NoSessionOf(c) /\ sm[c].status = "succ"
        /\ Goto(c, "key", call[c].key)
  /\ UNCHANGED <<pool, wd, hash, sm, crashed, strayed>>

\* The key of the call is put into the session unless it was before.  An
\* error of the driver, as for a null session, is discarded.
UpdateKey(c, key) ==
  /\ At(c, "key") /\ call[c].key = key
  /\ IF sm[c][key]
     THEN UNCHANGED <<wd, sm>>
     ELSE /\ Store(c, [sm[c] EXCEPT ![key] = TRUE])
          /\ \/ ~NoSessionOf(c) /\ wd' = [wd EXCEPT ![sm[c].queue][key] = c]
             \/ (NoSessionOf(c) \/ "set_key" \in Failing) /\ UNCHANGED wd
  /\ Goto(c, "do", key)
  /\ UNCHANGED <<pool, hash, crashed, strayed>>

hpre_sm2_update_public_key(c) == UpdateKey(c, "pub")
hpre_sm2_update_private_key(c) == UpdateKey(c, "pri")

\* A key that the context does not have: software reports it.
KeyNotSet(c) ==
  /\ At(c, "key")
  /\ Return(c)
  /\ UNCHANGED <<pool, wd, hash, sm, crashed, strayed>>

\* The hardware computes.  If it fails, as for a null session, the call is
\* served in software.
hpre_sm2_crypto(c) ==
  /\ At(c, "do")
  /\ Return(c)
  /\ UNCHANGED <<pool, wd, hash, sm, crashed, strayed>>

-----------------------------------------------------------------------------
Next ==
  \E c \in Ctxs :
    \/ hpre_sm2_init(c) \/ hpre_sm2_cleanup(c)
    \/ \E md \in Digests : hpre_sm2_ctrl(c, md)
    \/ hpre_sm2_set_ctx_id(c) \/ hpre_sm2_digest_custom(c)
    \/ hpre_sm2_encrypt(c) \/ hpre_sm2_decrypt(c)
    \/ hpre_sm2_sign(c) \/ hpre_sm2_verify(c)
    \/ Prepare(c) \/ KeyNotSet(c)
    \/ hpre_sm2_update_public_key(c) \/ hpre_sm2_update_private_key(c)
    \/ hpre_sm2_crypto(c)

Spec == Init /\ [][Next]_vars
-----------------------------------------------------------------------------
(* Properties *)

Holders(q) == {c \in Ctxs : sm[c].queue = q}

\* No queue is lost, whatever fails and in whatever order contexts are
\* closed: it is in the pool or some open context can still put it back.
QueuesKept == \A q \in Queues : q \in pool \/ Holders(q) # {}

\* As long as no session failed, a queue in the pool is out of reach of every
\* context, and no two contexts have the same queue (every caller of
\* wd_sm2_put_engine_ctx).
QueuesOwned ==
  ~strayed => \A q \in Queues :
                /\ q \in pool => Holders(q) = {}
                /\ \A c, d \in Holders(q) : c = d

\* The hardware computes with the key of the context that calls it, as the
\* OpenSSL functions that the engine replaces do.
OwnKey ==
  \A c \in Ctxs : call[c].at = "do" /\ ~NoSessionOf(c) =>
    wd[sm[c].queue][call[c].key] = c

\* As long as no session failed, the hardware computes in a session that has
\* the context's key, although the context only remembers that it set the key
\* (smctx->pubkey, smctx->prikey) and sessions are made anew; and with the
\* digest the application chose, also when the session could not be made anew
\* at that time (hpre_sm2_ctrl keeps the digest when hpre_sm2_update_sess
\* fails).
OwnSession ==
  ~strayed => \A c \in Ctxs : call[c].at = "do" =>
                /\ wd[sm[c].queue][call[c].key] = c
                /\ sm[c].md # "none" => wd[sm[c].queue].hash = sm[c].md
=====
