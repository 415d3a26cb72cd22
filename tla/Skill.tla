------------------------------- MODULE Skill -------------------------------
(***************************************************************************)
(* Reading a third-party skill: the frontmatter scanner that decides what  *)
(* YAML may reach the parser, the manifest read from the parsed document,  *)
(* and the bundle inventory.                                               *)
(*                                                                         *)
(* The author's document is a tree;  Render spells it in one of the ways   *)
(* YAML allows.  The scanner sees only the spelling, the YAML crate        *)
(* (external) sees the tree.  A line is a sequence of tokens: a word is    *)
(* one token, every other token is one character, "q" and "s" are the      *)
(* double and single quote, "e" the backslash, "t" a tab.                  *)
(***************************************************************************)
EXTENDS Naturals, Sequences, SequencesExt

CONSTANTS
    Entries,         \* top-level entries [key, node] an author may write
    Paths,           \* bundle entries [segments, suffix, kind]
    SKILL_MAX_NESTING_DEPTH, SKILL_OPAQUE_FIELD_MAX_COUNT,
    SKILL_BUNDLE_MAX_ENTRIES, SKILL_FRONTMATTER_MAX,
    MAX_ENTRIES      \* bound: entries of one document

VARIABLES
    document,        \* the tree the author is writing
    bundle           \* the files beside it

Word(c) == c \notin {" ", "t", ":", "-", "|", "#", "q", "s", "e", "[", "]", "{",
                     "}", ",", "&", "*", "!", "?", "<", ">", "---", "end"}

Core == {"allowed-tools", "compatibility", "description", "license", "metadata", "name"}

\* Spellings a YAML 1.1 reader takes for something else than a string, and
\* one the pinned parser itself resolves as a number.
yaml11_ambiguous_key(key) == key = <<"yes">>
ResolvedByParser(key) == key = "12"

is_plain_key(key) == key # <<>> /\ \A i \in DOMAIN key : Word(key[i])

\* F of one value.
Bind(v, F(_)) == CHOOSE out \in {F(x) : x \in {v}} : TRUE

Error(why) == [ok |-> FALSE, error |-> why]

-----------------------------------------------------------------------------
\* scan_line: one line, left to right, tracking quotes and flow depth.

At(chars, i) == IF i \in DOMAIN chars THEN chars[i] ELSE "end"
Blank(c) == c \in {" ", "t"}
Ends(c) == Blank(c) \/ c = "end"

FreshLine ==
    [quote |-> "", after_quoted |-> FALSE, after_flow_close |-> FALSE, flow |-> 0,
     flow_depth |-> 0, markers |-> 0, openings |-> <<>>, node_offset |-> 1,
     key_end |-> 0, block |-> FALSE, node_start |-> TRUE, error |-> "none"]

\* Node indicators refused wherever a node can begin.
Indicator(chars, i, flow) ==
    LET c == chars[i]
    IN  IF c \in {"&", "*", "!", "{"} THEN TRUE
        ELSE IF c = "<" THEN At(chars, i + 1) = "<"
        ELSE IF c = "[" THEN flow > 0
        ELSE IF c = "?" THEN flow > 0 \/ Ends(At(chars, i + 1))
        ELSE FALSE

\* The first place at or after i that is not one of the given characters.
RECURSIVE SkipOver(_, _, _)
SkipOver(chars, i, set) ==
    IF At(chars, i) \in set THEN SkipOver(chars, i + 1, set) ELSE i

check_block_scalar_header(chars, start) ==
    LET i == SkipOver(chars, start + 1, {"-", "+"})
        j == SkipOver(chars, i, {" ", "t"})
    IN  At(chars, j) \in {"end", "#"}

\* The state after the character at i, which is neither in a quote nor blank.
Token(chars, i, s) ==
    LET c    == chars[i]
        next == At(chars, i + 1)
        n    == IF s.node_start THEN [s EXCEPT !.node_offset = i] ELSE s
        after == [n EXCEPT !.after_quoted = FALSE,
                           !.after_flow_close = c \in {"]", "}"} /\ n.flow > 0]
        ends_key == Ends(next) \/ ((n.after_quoted \/ n.node_start) /\ n.flow > 0)
    IN  CASE c = "[" /\ n.node_start ->
               [after EXCEPT !.flow = @ + 1,
                             !.flow_depth = IF n.flow + 1 > @ THEN n.flow + 1 ELSE @,
                             !.node_start = TRUE]
          [] c \in {"]", "}"} ->
               [after EXCEPT !.flow = IF @ = 0 THEN 0 ELSE @ - 1, !.node_start = FALSE]
          [] c = "," -> [after EXCEPT !.node_start = n.flow > 0]
          [] c = ":" /\ ends_key /\ n.flow = 0 ->
               [after EXCEPT !.key_end = IF @ = 0 THEN i ELSE @,
                             !.openings = Append(@, <<n.node_offset, FALSE>>),
                             !.node_start = TRUE]
          [] c = ":" /\ ends_key /\ n.flow > 0 ->
               [after EXCEPT !.flow_depth = IF n.flow + 1 > @ THEN n.flow + 1 ELSE @,
                             !.node_start = TRUE]
          [] c = "-" /\ n.node_start /\ Ends(next) ->
               [after EXCEPT !.markers = @ + 1,
                             !.openings = Append(@, <<n.node_offset, TRUE>>)]
          [] OTHER -> [after EXCEPT !.node_start = FALSE]

RECURSIVE Walk(_, _, _)
Walk(chars, i, s) ==
    LET c       == chars[i]
        between == s.node_start \/ s.after_quoted \/ s.after_flow_close
    IN  IF s.error # "none" \/ i > Len(chars) THEN s
        ELSE IF s.quote # ""
        THEN IF \/ s.quote = "q" /\ c = "e"
                \/ s.quote = "s" /\ c = "s" /\ At(chars, i + 1) = "s"
             THEN Walk(chars, i + 2, s)
             ELSE Walk(chars, i + 1, IF c = s.quote
                                     THEN [s EXCEPT !.quote = "", !.after_quoted = TRUE]
                                     ELSE s)
        ELSE IF c \in {"q", "s"} /\ s.node_start
        THEN Walk(chars, i + 1,
                  [s EXCEPT !.node_offset = i, !.quote = c, !.node_start = FALSE])
        ELSE IF c = "#" /\ (between \/ Blank(At(chars, i - 1))) THEN s
        ELSE IF Blank(c) THEN Walk(chars, i + 1, s)
        ELSE IF (between /\ Indicator(chars, i, s.flow)) \/ (s.flow > 0 /\ c \in {"{", "["})
        THEN [s EXCEPT !.error = "UnsupportedYaml"]
        ELSE IF c \in {"|", ">"} /\ s.node_start /\ s.flow = 0
        THEN IF check_block_scalar_header(chars, i)
             THEN [s EXCEPT !.block = TRUE]
             ELSE [s EXCEPT !.error = "UnsupportedYaml"]
        ELSE Bind(Token(chars, i, s), LAMBDA n : Walk(chars, i + 1, n))

scan_line(trimmed) ==
    LET closed(s) == IF s.error = "none" /\ (s.quote # "" \/ s.flow > 0)
                     THEN [s EXCEPT !.error = "UnsupportedYaml"] ELSE s
    IN  closed(Walk(trimmed, 1, FreshLine))

-----------------------------------------------------------------------------
\* scan_subset: the lines of the frontmatter, carrying the open levels.

IndentOf(line) == SkipOver(line, 1, {" ", "t"}) - 1

RECURSIVE TrimEnd(_)
TrimEnd(line) ==
    IF line # <<>> /\ Blank(Last(line)) THEN TrimEnd(Front(line)) ELSE line

\* Mutant: a mapping at a sequence's column does not end the sequence.
ClosesDeeper(open, column, is_sequence) == open[1] > column

Closes(open, column, is_sequence) ==
    open[1] > column \/ (open[1] = column /\ open[2] /\ ~is_sequence)

\* One collection named at a column: close what it ends, continue or open.
RECURSIVE OpenLevel(_, _, _)
OpenLevel(stack, column, is_sequence) ==
    IF stack # <<>> /\ Closes(Last(stack), column, is_sequence)
    THEN OpenLevel(Front(stack), column, is_sequence)
    ELSE IF stack # <<>> /\ Last(stack) = <<column, is_sequence>> THEN stack
    ELSE Append(stack, <<column, is_sequence>>)

RECURSIVE OpenLevels(_, _, _)
OpenLevels(stack, indent, openings) ==
    IF openings = <<>> THEN stack
    ELSE OpenLevels(OpenLevel(stack, indent + Head(openings)[1], Head(openings)[2]),
                    indent, Tail(openings))

Bad(st, why) == [st EXCEPT !.error = why]

\* A line that is not inside a block scalar, blank or a comment: what scan_line
\* found on it, its key and the levels it leaves open.
ApplyLine(st, indent, facts, key, stack) ==
    LET opened == [st EXCEPT !.stack = stack,
                             !.block = IF facts.block THEN indent ELSE -1]
    IN  IF facts.error # "none" THEN Bad(st, facts.error)
        ELSE IF facts.key_end > 0 /\ is_plain_key(key) /\ yaml11_ambiguous_key(key)
             THEN Bad(st, "Yaml11AmbiguousKey")
        ELSE IF facts.block /\ facts.markers > 0 THEN Bad(st, "UnsupportedYaml")
        ELSE IF indent = 0 /\ facts.markers > 0 /\ st.keys = <<>>
             THEN Bad(st, "MalformedTopLevelKey")
        ELSE IF indent = 0 /\ facts.markers = 0
                /\ (facts.key_end = 0 \/ ~ is_plain_key(key))
             THEN Bad(st, "MalformedTopLevelKey")
        ELSE IF indent = 0 /\ facts.markers = 0 /\ key[1] \in ToSet(st.keys)
             THEN Bad(st, "DuplicateKey")
        ELSE IF Len(stack) - 1 + facts.flow_depth > SKILL_MAX_NESTING_DEPTH
             THEN Bad(st, "TooDeeplyNested")
        ELSE IF indent = 0 /\ facts.markers = 0
             THEN [opened EXCEPT !.keys = Append(@, key[1])]
        ELSE opened

ScanNode(st, indent, trimmed) ==
    Bind(scan_line(trimmed),
         LAMBDA facts : ApplyLine(st, indent, facts, SubSeq(trimmed, 1, facts.key_end - 1),
                                  OpenLevels(st.stack, indent, facts.openings)))

ScanOne(st, line) ==
    LET indent == IndentOf(line)
        scanned(trimmed) ==
            IF st.block >= 0 /\ (trimmed = <<>> \/ indent > st.block) THEN st
            ELSE IF \E i \in 1 .. indent : line[i] = "t" THEN Bad(st, "TabIndentation")
            ELSE IF trimmed = <<>> \/ Head(trimmed) = "#" THEN [st EXCEPT !.block = -1]
            ELSE IF Head(trimmed) = "---" THEN Bad(st, "UnsupportedYaml")
            ELSE ScanNode([st EXCEPT !.block = -1], indent, trimmed)
    IN  scanned(TrimEnd(SubSeq(line, indent + 1, Len(line))))

RECURSIVE ScanLines(_, _)
ScanLines(st, lines) ==
    IF lines = <<>> \/ st.error # "none" THEN st
    ELSE Bind(ScanOne(st, Head(lines)), LAMBDA n : ScanLines(n, Tail(lines)))

scan_subset(lines) ==
    LET answer(st) == IF st.error # "none" THEN Error(st.error)
                      ELSE IF st.keys = <<>> THEN Error("MalformedTopLevelKey")
                      ELSE [ok |-> TRUE, keys |-> st.keys]
    IN  answer(ScanLines([keys |-> <<>>, stack |-> <<>>, block |-> -1, error |-> "none"], lines))

\* The block between the opening fence and the first closing one that has a
\* line before it.
split_frontmatter(lines) ==
    LET closing == {i \in 3 .. Len(lines) : lines[i] = <<"---">>}
        front   == SubSeq(lines, 2, Min(closing) - 1)
    IN  IF lines = <<>> \/ Head(lines) # <<"---">> \/ closing = {}
        THEN Error("MissingFrontmatter")
        ELSE IF Len(front) > SKILL_FRONTMATTER_MAX THEN Error("FrontmatterTooLarge")
        ELSE [ok |-> TRUE, front |-> front]

-----------------------------------------------------------------------------
\* The author's spellings of a tree.  A node is a word, a quoted scalar, a
\* block scalar with its lines, a flow sequence of words, a list of nodes or
\* a mapping of entries.

Spellings == [step : {1, 2}, flush : BOOLEAN, compact : BOOLEAN]

Pad(n) == [i \in 1 .. n |-> " "]

Shift(lines, n) == [i \in DOMAIN lines |-> Pad(n) \o lines[i]]

\* Put a list item's content behind its marker, or under it.
Behind(lines, compact) ==
    IF compact THEN <<<<"-", " ">> \o Head(lines)>> \o Shift(Tail(lines), 2)
    ELSE <<<<"-">>>> \o Shift(lines, 2)

RECURSIVE Content(_, _)
RECURSIVE EntryLines(_, _)
RECURSIVE Items(_, _)
RECURSIVE EntriesLines(_, _)

\* A node on lines of its own, starting in the first column.
Content(node, sp) ==
    CASE node.kind = "word"   -> <<<<"v">>>>
      [] node.kind = "quoted" -> <<<<"q", "v", ":", " ", "#", "[", "q">>>>
      [] node.kind = "flow"   -> <<<<"[", "v", ",", " ", "v", "]">>>>
      [] node.kind = "block"  -> <<<<"|">>>> \o Shift(node.lines, sp.step)
      [] node.kind = "list"   -> Items(node.items, sp)
      [] node.kind = "map"    -> EntriesLines(node.entries, sp)

Items(items, sp) ==
    IF items = <<>> THEN <<>>
    ELSE LET c == Content(Head(items), sp)
         IN  Behind(c, sp.compact \/ Head(items).kind \notin {"list", "map"})
                 \o Items(Tail(items), sp)

EntryLines(e, sp) ==
    LET c == Content(e.node, sp)
    IN  IF e.node.kind = "map" THEN <<<<e.key, ":">>>> \o Shift(c, sp.step)
        ELSE IF e.node.kind = "list"
        THEN <<<<e.key, ":">>>> \o Shift(c, IF sp.flush THEN 0 ELSE sp.step)
        ELSE <<<<e.key, ":", " ">> \o Head(c)>> \o Tail(c)

EntriesLines(entries, sp) ==
    IF entries = <<>> THEN <<>>
    ELSE EntryLines(Head(entries), sp) \o EntriesLines(Tail(entries), sp)

RECURSIVE Depth(_)
Depth(node) ==
    CASE node.kind \in {"word", "quoted", "block"} -> 0
      [] node.kind = "flow" -> 1
      [] node.kind = "list" -> 1 + Max({0} \cup {Depth(node.items[i]) : i \in DOMAIN node.items})
      [] node.kind = "map"  -> 1 + Max({0} \cup {Depth(node.entries[i].node) :
                                                    i \in DOMAIN node.entries})

-----------------------------------------------------------------------------
\* SkillManifest::parse over the tree the YAML crate hands back.

KeysOf(doc) == [i \in DOMAIN doc |-> doc[i].key]

\* take: the crate keeps the last of a repeated key, under the type it
\* resolved the key to.
Found(doc, key) == {i \in DOMAIN doc : doc[i].key = key /\ ~ResolvedByParser(key)}
take(doc, key) == doc[Max(Found(doc, key))].node

IsString(node) == node.kind \in {"word", "quoted", "block"}

StringField(doc, key, required) ==
    IF Found(doc, key) = {} THEN ~required ELSE IsString(take(doc, key))

ToolsField(doc) ==
    Found(doc, "allowed-tools") = {} \/
        LET n == take(doc, "allowed-tools")
        IN  \/ n.kind = "flow"
            \/ n.kind = "list" /\ \A i \in DOMAIN n.items : IsString(n.items[i])

MetadataField(doc) ==
    Found(doc, "metadata") = {} \/
        LET n == take(doc, "metadata")
        IN  /\ n.kind = "map"
            /\ \A i \in DOMAIN n.entries :
                  /\ IsString(n.entries[i].node)
                  /\ n.entries[i].key = "gridwork" => n.entries[i].node.kind = "quoted"

Opaque(keys) == SelectSeq(keys, LAMBDA k : k \notin Core)

\* The manifest of a file;  name is a word, so only its shape can be wrong.
parse(lines, doc) ==
    LET fields(extra) ==
            IF ~StringField(doc, "name", TRUE) THEN Error("Malformed")
            ELSE IF take(doc, "name").kind # "word" THEN Error("InvalidName")
            ELSE IF ~(/\ StringField(doc, "description", TRUE)
                      /\ StringField(doc, "license", FALSE)
                      /\ StringField(doc, "compatibility", FALSE)
                      /\ ToolsField(doc) /\ MetadataField(doc)) THEN Error("Malformed")
            ELSE IF Len(extra) > SKILL_OPAQUE_FIELD_MAX_COUNT THEN Error("TooManyEntries")
            ELSE IF \E i \in DOMAIN extra : Found(doc, extra[i]) = {}
                 THEN Error("KeyNotInDocument")
            ELSE [ok |-> TRUE, core |-> {k \in Core : Found(doc, k) # {}},
                  opaque |-> [i \in DOMAIN extra |-> <<extra[i], take(doc, extra[i])>>]]
        scanned(scan) == IF scan.ok THEN fields(Opaque(scan.keys)) ELSE scan
        read(split) == IF split.ok THEN scanned(scan_subset(split.front)) ELSE split
    IN  read(split_frontmatter(lines))

File(doc, sp) == <<<<"---">>>> \o EntriesLines(doc, sp) \o <<<<"---">>>>

-----------------------------------------------------------------------------
\* BundleEntry::classify and inventory.

\* Mutant: only a leading parent segment is refused.
ClassifyHead(p) ==
    IF p.segments = <<>> THEN "MalformedPath"
    ELSE IF Head(p.segments) = "" THEN "AbsolutePath"
    ELSE IF Head(p.segments) = ".." THEN "ParentTraversal"
    ELSE IF p.kind # "File" THEN "NotARegularFile"
    ELSE IF p.suffix \notin {"md", "json", "txt"} THEN "Unclassified"
    ELSE "ok"

classify(p) ==
    IF p.segments = <<>> THEN "MalformedPath"
    ELSE IF Head(p.segments) = "" THEN "AbsolutePath"
    ELSE IF ".." \in ToSet(p.segments) THEN "ParentTraversal"
    ELSE IF p.kind \in {"Symlink", "Other", "Directory"} THEN "NotARegularFile"
    ELSE IF p.kind = "Executable" THEN "Executable"
    ELSE IF p.suffix = "sh" THEN "ExecutableSuffix"
    ELSE IF p.suffix \notin {"md", "json", "txt"} THEN "Unclassified"
    ELSE "ok"

\* The first refusal, entry by entry.
inventory(entries) ==
    LET stops == {i \in DOMAIN entries :
                    i > SKILL_BUNDLE_MAX_ENTRIES \/ classify(entries[i]) # "ok"}
    IN  IF stops = {} THEN "ok"
        ELSE IF Min(stops) > SKILL_BUNDLE_MAX_ENTRIES THEN "TooManyEntries"
        ELSE classify(entries[Min(stops)])

\* Where a path leads, counted in directories below the skill's own.
RECURSIVE Below(_, _)
Below(segments, n) ==
    IF segments = <<>> \/ n < 0 THEN n
    ELSE Below(Tail(segments),
               IF Head(segments) = ".." THEN n - 1
               ELSE IF Head(segments) \in {".", ""} THEN n
               ELSE n + 1)

-----------------------------------------------------------------------------
\* The author writes the document or lays out the bundle;  nothing reads
\* both, so a behaviour does one of them.

SkillInit == document = <<>> /\ bundle = <<>>

WriteEntry ==
    /\ bundle = <<>>
    /\ Len(document) < MAX_ENTRIES
    /\ \E e \in Entries : document' = Append(document, e)
    /\ UNCHANGED bundle

AddFile ==
    /\ document = <<>>
    /\ Len(bundle) <= SKILL_BUNDLE_MAX_ENTRIES
    /\ \E p \in Paths : bundle' = Append(bundle, p)
    /\ UNCHANGED document

SkillNext == WriteEntry \/ AddFile

-----------------------------------------------------------------------------
DepthOfDocument == Max({0} \cup {Depth(document[i].node) : i \in DOMAIN document})

Distinct == \A i, j \in DOMAIN document : i # j => document[i].key # document[j].key

(***************************************************************************)
(* The line scanner and the YAML reader see the same document (skill.rs,   *)
(* scan_subset): in every spelling of a tree the scanner names exactly the *)
(* top-level keys the author wrote, in order, refuses a repeated key, and  *)
(* measures the nesting of the tree and not of its spelling.               *)
(***************************************************************************)
ScannerSeesTheTree ==
    LET sees(scan) ==
            IF scan.ok
            THEN /\ scan.keys = KeysOf(document)
                 /\ Distinct
                 /\ DepthOfDocument <= SKILL_MAX_NESTING_DEPTH
            ELSE \/ scan.error = "DuplicateKey" /\ ~Distinct
                 \/ scan.error = "TooDeeplyNested"
                    /\ DepthOfDocument > SKILL_MAX_NESTING_DEPTH
                 \/ scan.error = "Yaml11AmbiguousKey"
                    /\ \E i \in DOMAIN document : yaml11_ambiguous_key(<<document[i].key>>)
    IN  document # <<>> => \A sp \in Spellings : sees(scan_subset(EntriesLines(document, sp)))

(***************************************************************************)
(* No field of a skill is dropped on the way in (skill.rs, the module      *)
(* comment, "never dropped"): an accepted manifest holds every top-level   *)
(* key once, as a core field or as opaque evidence with the value the      *)
(* author wrote, and every file of an accepted inventory lies inside the   *)
(* skill's directory.                                                      *)
(***************************************************************************)
NothingDropped ==
    /\ LET keeps(m) ==
              /\ m.core \cup {m.opaque[i][1] : i \in DOMAIN m.opaque}
                    = ToSet(KeysOf(document))
              /\ Cardinality(m.core) + Len(m.opaque) = Len(document)
              /\ \A i \in DOMAIN m.opaque : \E j \in DOMAIN document :
                    document[j].key = m.opaque[i][1] /\ document[j].node = m.opaque[i][2]
           checked(m) == m.ok => keeps(m)
       IN  \A sp \in Spellings : checked(parse(File(document, sp), document))
    /\ inventory(bundle) = "ok" =>
          \A i \in DOMAIN bundle : /\ Below(bundle[i].segments, 0) > 0
                                   /\ bundle[i].kind = "File"
=============================================================================
