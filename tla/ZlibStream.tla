----------------------------- MODULE ZlibStream -----------------------------
(***************************************************************************)
(* The zlib adapter: a z_stream of an application on a machine with an     *)
(* accelerator.  A stream has a software state (lz_), if it was scheduled  *)
(* on the accelerator a hardware state (kz_), and a scheduler context      *)
(* reached through strm->state->sche_ctx: ctx[s], Null when that is 0.     *)
(*                                                                         *)
(* The application follows zlib's rules: it ends a stream that was opened, *)
(* whatever became of it, and uses no other.                               *)
(***************************************************************************)
EXTENDS Scheduler

CONSTANTS
  Deflates,   \* streams that compress
  Inflates,   \* streams that decompress
  Failing     \* calls that may fail: "lz_init", "create", "kz_init",
              \* "process", "kz_reset", "kz_end"

Streams == Ctxs

ASSUME StreamAssumption ==
  /\ IsFiniteSet(Streams)
  /\ Streams = Deflates \cup Inflates /\ Deflates \cap Inflates = {}
  /\ Algs = {"ZLIB-DEFLATE", "ZLIB-INFLATE"}
  /\ Failing \subseteq {"lz_init", "create", "kz_init", "process", "kz_reset",
                        "kz_end"}

VARIABLES
  app,    \* what the application knows of a stream
  lz,     \* streams with a software state
  kz      \* streams with a hardware state

vars == <<scVars, app, lz, kz>>

Init ==
  /\ kuaf_inner_ctx_init
  /\ app = [s \in Streams |-> "closed"]
  /\ lz = {} /\ kz = {}

TypeOK ==
  /\ SchedulerTypeOK
  /\ app \in [Streams -> {"closed", "open", "error", "crashed"}]
  /\ lz \subseteq Streams /\ kz \subseteq Streams

Alg(s) == IF s \in Deflates THEN "ZLIB-DEFLATE" ELSE "ZLIB-INFLATE"
Returns(s, state) == app' = [app EXCEPT ![s] = state]
Fails(call) == call \in Failing
Usable(s) == app[s] \in {"open", "error"}

\* A call that follows a null sche_ctx.
Crash(s) ==
  /\ ctx[s] = Null
  /\ Returns(s, "crashed")
  /\ UNCHANGED <<scVars, lz, kz>>

-----------------------------------------------------------------------------
(* deflateInit2_ and inflateInit2_ *)

\* When kz_ fails the context stays, and the application cannot end it.
Opened(s) ==
  /\ lz' = lz \cup {s}
  /\ kuaf_ctx_scheduler(s, Alg(s))
  /\ \/ ~ Hard(s)' /\ Returns(s, "open") /\ UNCHANGED kz
     \/ Hard(s)' /\ Returns(s, "open") /\ kz' = kz \cup {s}
     \/ Hard(s)' /\ Fails("kz_init") /\ UNCHANGED <<app, kz>>

\* Errors before the context is scheduled, or of the scheduler: the software
\* state stays, and sche_ctx is what lz_ left there.
NotOpened(s) ==
  /\ \/ Fails("lz_init") /\ UNCHANGED lz
     \/ (Fails("create") \/ NoStrategy(Alg(s))) /\ lz' = lz \cup {s}
  /\ UNCHANGED <<scVars, app, kz>>

\* A stream may be opened again after an error.
Init2(s) == app[s] = "closed" /\ (Opened(s) \/ NotOpened(s))

deflateInit2_(s) == s \in Deflates /\ Init2(s)
inflateInit2_(s) == s \in Inflates /\ Init2(s)

-----------------------------------------------------------------------------
(* deflate and inflate *)

\* An error of either engine frees the context.  A call that succeeds leaves
\* all of this alone, whichever engine served it.
Process(s) ==
  /\ Usable(s)
  /\ \/ Crash(s)
     \/ /\ ctx[s] # Null /\ Fails("process")
        /\ kuaf_ctx_scheduler_free(s)
        /\ Returns(s, "error")
        /\ UNCHANGED <<lz, kz>>

deflate(s) == s \in Deflates /\ Process(s)
inflate(s) == s \in Inflates /\ Process(s)

-----------------------------------------------------------------------------
(* deflateReset and inflateReset, deflateEnd and inflateEnd *)

\* Only the accelerator's part can fail; the context goes then.
Reset(s) ==
  /\ Usable(s)
  /\ \/ Crash(s)
     \/ /\ Hard(s) /\ Fails("kz_reset")
        /\ kuaf_ctx_scheduler_free(s)
        /\ Returns(s, "error")
        /\ UNCHANGED <<lz, kz>>

deflateReset(s) == s \in Deflates /\ Reset(s)
inflateReset(s) == s \in Inflates /\ Reset(s)

\* Mutant: kz_deflateEnd is not called.
EndSoftOnly(s) ==
  /\ Usable(s) /\ ctx[s] # Null
  /\ kuaf_ctx_scheduler_free(s)
  /\ Returns(s, "closed")
  /\ lz' = lz \ {s} /\ UNCHANGED kz

\* An error of the accelerator keeps the software state.
End(s) ==
  /\ Usable(s)
  /\ \/ Crash(s)
     \/ /\ ctx[s] # Null
        /\ kuaf_ctx_scheduler_free(s)
        /\ Returns(s, "closed")
        /\ kz' = kz \ {s}
        /\ \/ lz' = lz \ {s}
           \/ Hard(s) /\ Fails("kz_end") /\ UNCHANGED lz

deflateEnd(s) == s \in Deflates /\ End(s)
inflateEnd(s) == s \in Inflates /\ End(s)

-----------------------------------------------------------------------------
Next ==
  \E s \in Streams :
    \/ deflateInit2_(s) \/ deflate(s) \/ deflateReset(s) \/ deflateEnd(s)
    \/ inflateInit2_(s) \/ inflate(s) \/ inflateReset(s) \/ inflateEnd(s)

Spec == Init /\ [][Next]_vars
-----------------------------------------------------------------------------
(* Properties *)

\* The accelerator is used by streams it was prepared for, and a stream that
\* the application has closed leaves nothing there.
HardMeansPrepared ==
  \A s \in Streams : /\ Usable(s) /\ Hard(s) => s \in kz
                     /\ app[s] = "closed" => s \notin kz
=============================================================================
