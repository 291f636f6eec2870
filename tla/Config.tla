------------------------------- MODULE Config -------------------------------
(***************************************************************************)
(* The configuration: every .cnf file of /etc/kuaf is parsed once, when    *)
(* the library is loaded, into tables of fixed size, and every lookup      *)
(* afterwards is a linear search in them.                                  *)
(*                                                                         *)
(* A line is a record: a section header, a `key = value' pair, or neither  *)
(* (a comment, an empty or a malformed line).  Trimming and the cutting of *)
(* long names are done when a line is written here.  A value is a text and *)
(* the number atoi makes of it: "8Gbps" is 8, "60%" is 60.                 *)
(***************************************************************************)
EXTENDS Integers, Sequences, SequencesExt

CONSTANTS
  MAX_FILES,      \* slots for files
  MAX_SECTIONS,   \* slots for the sections of a file
  MAX_KEYS,       \* slots for the pairs of a section
  Directories     \* what /etc/kuaf may hold: sequences of directory entries

\* No file has this name: the slot of a file that could not be named.
Unnamed == ""

\* What a lookup that finds nothing returns: a null text, and -1 as a number.
NoValue == [text |-> "", int |-> -1]

Values == [text : STRING, int : Int]
Lines == [type : {"section"}, name : STRING] \cup [type : {"other"}]
           \cup [type : {"pair"}, key : STRING, value : Values]
Entries == [cnf : BOOLEAN, opens : BOOLEAN, name : STRING, lines : Seq(Lines)]

ASSUME ConfigAssumption ==
  /\ MAX_FILES \in Nat /\ MAX_SECTIONS \in Nat /\ MAX_KEYS \in Nat
  /\ Directories \subseteq Seq(Entries)
-----------------------------------------------------------------------------
(* Parsing *)

\* A header beyond the last slot is ignored: its pairs go to the section before.
NewSection(sections, name) ==
  IF Len(sections) < MAX_SECTIONS
  THEN Append(sections, [section |-> name, keys |-> <<>>])
  ELSE sections

\* A pair belongs to the section opened last; without one it is ignored.
NewPair(sections, line) ==
  IF sections # <<>> /\ Len(Last(sections).keys) < MAX_KEYS
  THEN [sections EXCEPT ![Len(sections)].keys =
          Append(@, [key |-> line.key, value |-> line.value])]
  ELSE sections

Parsed(sections, line) ==
  IF line.type = "section" THEN NewSection(sections, line.name)
  ELSE IF line.type = "pair" THEN NewPair(sections, line) ELSE sections

\* An entry that cannot be opened takes no slot, one that cannot be named an
\* empty one.
parse_cfg_file(files, entry) ==
  IF entry.opens /\ Len(files) < MAX_FILES
  THEN Append(files, [filename |-> entry.name,
                      sections |-> IF entry.name = Unnamed THEN <<>>
                                   ELSE FoldLeft(Parsed, <<>>, entry.lines)])
  ELSE files

\* Of the entries of a directory only some are configuration files.
Read(files, entry) == IF entry.cnf THEN parse_cfg_file(files, entry) ELSE files

\* readdir's order.
load_kuaf_configs(directory) == FoldLeft(Read, <<>>, directory)
-----------------------------------------------------------------------------
(* Lookups *)

\* Mutant: the search goes on after a match.
FindLast(matches) == IF matches = {} THEN 0 ELSE Max(matches)

\* Where the search stops: the first of the matching slots, or 0.
Find(matches) == IF matches = {} THEN 0 ELSE Min(matches)

kuaf_config_get_str(files, filename, section, key) ==
  LET f == Find({i \in DOMAIN files : files[i].filename = filename})
      sections == files[f].sections
      s == Find({i \in DOMAIN sections : sections[i].section = section})
      kvs == sections[s].keys
      k == Find({i \in DOMAIN kvs : kvs[i].key = key})
  IN IF f # 0 /\ s # 0 /\ k # 0 THEN kvs[k].value ELSE NoValue

kuaf_config_get_int(files, filename, section, key) ==
  kuaf_config_get_str(files, filename, section, key).int
-----------------------------------------------------------------------------
(* A reference definition, on the lines of a directory *)

Headers(lines) == {i \in DOMAIN lines : lines[i].type = "section"}
Pairs(lines) == {i \in DOMAIN lines : lines[i].type = "pair"}

\* The pairs under the header at line h.
Under(lines, h) ==
  {i \in Pairs(lines) : h < i /\ \A g \in Headers(lines) : ~ (h < g /\ g < i)}

Least(S) == CHOOSE i \in S : \A j \in S : i <= j

\* The value of the first pair for key under the first header of section in
\* the first file of that name.
RefValue(directory, filename, section, key) ==
  LET named == {e \in DOMAIN directory : /\ directory[e].cnf /\ directory[e].opens
                                         /\ directory[e].name = filename}
      lines == directory[Least(named)].lines
      headers == {h \in Headers(lines) : lines[h].name = section}
      pairs == {i \in Under(lines, Least(headers)) : lines[i].key = key}
  IN IF named # {} /\ headers # {} /\ pairs # {}
     THEN lines[Least(pairs)].value ELSE NoValue

\* The tables hold all of a directory.
WithinLimits(directory) ==
  /\ Len(directory) <= MAX_FILES
  /\ \A e \in DOMAIN directory :
       LET lines == directory[e].lines IN
       /\ Cardinality(Headers(lines)) <= MAX_SECTIONS
       /\ \A h \in Headers(lines) : Cardinality(Under(lines, h)) <= MAX_KEYS
=============================================================================
