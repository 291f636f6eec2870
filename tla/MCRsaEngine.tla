---------------------------- MODULE MCRsaEngine -----------------------------
(* Instances of RsaEngine for TLC. *)
EXTENDS RsaEngine

Section(name) == [type |-> "section", name |-> name]
Pair(key, text, int) == [type |-> "pair", key |-> key, value |-> [text |-> text, int |-> int]]

Parallel == <<Pair("scheduler", "parallel", 0), Pair("parallel", "1", 1)>>
Unlimited == <<Pair("scheduler", "parallel", 0)>>
Ratio == <<Pair("scheduler", "ratio", 0), Pair("ratio", "100%", 100)>>
Bandwidth == <<Pair("scheduler", "bandwidth", 0), Pair("bandwidth", "8Gbps", 8)>>

\* config/kae.cnf has Parallel for RSA and Ratio for SM2.
Configured(p, q) ==
  <<[cnf |-> TRUE, opens |-> TRUE, name |-> "kae",
     lines |-> <<Section("RSA")>> \o p \o <<Section("SM2")>> \o q]>>

MCDirectories ==
  {Configured(Parallel, Ratio), Configured(Parallel, Parallel), Configured(Bandwidth, <<>>),
   Configured(Unlimited, Ratio), Configured(<<>>, Parallel)}
=============================================================================
