---------------------------- MODULE MCZlibStream ----------------------------
(* Instances of ZlibStream for TLC. *)
EXTENDS ZlibStream

Section(name) == [type |-> "section", name |-> name]
Pair(key, text, int) == [type |-> "pair", key |-> key, value |-> [text |-> text, int |-> int]]
Entry(name, lines) == [cnf |-> TRUE, opens |-> TRUE, name |-> name, lines |-> lines]

\* The strategies of both algorithms, as config/kae.cnf and others set them.
Parallel == <<Pair("scheduler", "parallel", 0), Pair("parallel", "1", 1)>>
Bandwidth == <<Pair("scheduler", "bandwidth", 0), Pair("bandwidth", "8Gbps", 8)>>
Ratio == <<Pair("scheduler", "ratio", 0), Pair("ratio", "60%", 60)>>
Strategies ==
  {Parallel, Bandwidth, Ratio, Bandwidth \o <<Pair("parallel", "1", 1)>>,
   <<Pair("scheduler", "parallel", 0)>>, <<Pair("scheduler", "fastest", 0)>>, <<>>}

Configured(p, q) ==
  <<Entry("kae", <<Section("ZLIB-DEFLATE")>> \o p
                 \o <<Section("ZLIB-INFLATE")>> \o q)>>

\* Directories for the parser: lines in any order, sections and keys that
\* come twice, a file that cannot be opened, one that is too many.
SampleLines ==
  {Section("ZLIB-DEFLATE"), Section("RSA"), [type |-> "other"],
   Pair("scheduler", "ratio", 0), Pair("ratio", "1", 1), Pair("ratio", "2", 2)}
Samples ==
  {<<Entry("kae", lines)>> : lines \in [1 .. 4 -> SampleLines]}
  \cup {<<[Entry("kuaf", <<>>) EXCEPT !.opens = opens, !.cnf = cnf],
          Entry(name, <<>>), Entry("kae", lines)>> :
            opens \in BOOLEAN, cnf \in BOOLEAN, name \in {Unnamed, "kae", "other"},
            lines \in [1 .. 2 -> SampleLines]}

MCDirectories ==
  {Configured(p, q) : p \in {Parallel, Ratio}, q \in Strategies} \cup Samples
MCSymmetry == Permutations(Deflates) \cup Permutations(Inflates)
=============================================================================
