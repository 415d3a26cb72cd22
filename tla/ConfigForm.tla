------------------------------ MODULE ConfigForm ------------------------------
(***************************************************************************)
(* The generated form of the Config lens (gwk-tui/src/config.rs): which    *)
(* documents a form may own, where each value sits in the source text, and *)
(* how the changed values are written back into that text.                 *)
(*                                                                         *)
(* A document is a sequence of tokens.  "head" and "heads" are [t] and     *)
(* [[t]], "key" is an assignment's left side, "ikey" a key inside an       *)
(* inline table, "atom" a scalar; brackets, braces, comments and line ends *)
(* are tokens of their own.  Quoting, escapes and blanks are inside the    *)
(* tokens.                                                                 *)
(***************************************************************************)
EXTENDS Naturals, Sequences, SequencesExt, FiniteSetsExt

CONSTANTS
    Documents,      \* the documents a file may hold
    Typed           \* the values an operator may type, each [kind, items]

VARIABLE form       \* the open form of one document

NL == [t |-> "nl"]
Comment == [t |-> "comment"]
Open(b) == [t |-> b]
Atom(kind, v) == [t |-> "atom", kind |-> kind, v |-> v]

Is(doc, i, kinds) == doc[i].t \in kinds
Count(doc, a, b, kinds) == Cardinality({i \in a..b : Is(doc, i, kinds)})
-----------------------------------------------------------------------------
(***************************************************************************)
(* The source scanner.                                                     *)
(***************************************************************************)
Assignments(doc) == {i \in DOMAIN doc : Is(doc, i, {"key"})}

\* A value ends at the first line end or comment outside every bracket.
find_value_end(doc, start) ==
    Min({Len(doc) + 1} \cup
        {j \in start..Len(doc) :
            /\ Is(doc, j, {"nl", "comment"})
            /\ Count(doc, start, j, {"[", "{"}) = Count(doc, start, j, {"]", "}"})})

Span(doc, i) == [from |-> i + 1, to |-> find_value_end(doc, i + 1) - 1]

Headers(doc, i) == {j \in 1..i : Is(doc, j, {"head", "heads"})}

\* The table the scanner is in: the last header it passed, of either form.
TableAt(doc, i) == IF Headers(doc, i) = {} THEN << >> ELSE doc[Max(Headers(doc, i))].p

Logical(doc, i) == TableAt(doc, i) \o doc[i].p

\* A later assignment of the same logical path replaces the earlier span.
assignment_value_spans(doc) ==
    [q \in {Logical(doc, i) : i \in Assignments(doc)} |->
        Span(doc, Max({i \in Assignments(doc) : Logical(doc, i) = q}))]
-----------------------------------------------------------------------------
(***************************************************************************)
(* What the TOML parser makes of the text.  The elements of an array of    *)
(* tables are inside one array value.                                      *)
(***************************************************************************)
ArrayTables(doc, i) ==
    {doc[j].p : j \in {h \in Headers(doc, i) :
                        Is(doc, h, {"heads"}) /\ IsPrefix(doc[h].p, TableAt(doc, i))}}

Items(doc, span) ==
    LET atoms == {i \in span.from..span.to : Is(doc, i, {"atom"})}
    IN  [n \in 1..Cardinality(atoms) |->
            doc[CHOOSE i \in atoms : Cardinality({k \in atoms : k <= i}) = n]]

Leaves(doc, i) ==
    LET span == Span(doc, i)
    IN  IF ArrayTables(doc, i) # {}
        THEN {[path |-> q, kind |-> "array", items |-> << >>] :
                q \in {r \in ArrayTables(doc, i) :
                        \A s \in ArrayTables(doc, i) : Len(r) <= Len(s)}}
        ELSE IF Is(doc, span.from, {"{"})
        THEN {[path |-> Logical(doc, i) \o doc[k].p, kind |-> doc[k + 1].kind,
               items |-> <<doc[k + 1]>>] :
                k \in {j \in span.from..span.to : Is(doc, j, {"ikey"})}}
        ELSE {[path |-> Logical(doc, i),
               kind |-> IF Is(doc, span.from, {"["}) THEN "array" ELSE doc[span.from].kind,
               items |-> Items(doc, span)]}

parse_toml(doc) ==
    /\ \A i, j \in Assignments(doc) :
        (i # j /\ ArrayTables(doc, i) = {} /\ ArrayTables(doc, j) = {}) =>
            ~IsPrefix(Logical(doc, i), Logical(doc, j))
    /\ \A i, j \in {h \in DOMAIN doc : Is(doc, h, {"head"})} : i # j => doc[i].p # doc[j].p

\* Tables are walked; every other value is one field.
collect_form_fields(doc) == UNION {Leaves(doc, i) : i \in Assignments(doc)}

toml_sources_env(doc) == \E i \in DOMAIN doc : Is(doc, i, {"atom"}) /\ doc[i].v = "env"

EditorOnly == {"identity/authority-policy.toml"}

route_for(path, doc) ==
    IF /\ path \notin EditorOnly
       /\ parse_toml(doc)
       /\ ~toml_sources_env(doc)
       /\ \A f \in collect_form_fields(doc) : f.path \in DOMAIN assignment_value_spans(doc)
    THEN "form" ELSE "editor"

\* The same fields of the same kinds, and arrays of the same length and kinds.
validate_shape(template, doc) ==
    LET Shape(fields) == {[path |-> f.path, kind |-> f.kind,
                           kinds |-> [n \in DOMAIN f.items |-> f.items[n].kind]] : f \in fields}
    IN  Shape(collect_form_fields(template)) = Shape(collect_form_fields(doc))
-----------------------------------------------------------------------------
(***************************************************************************)
(* Writing back.  A value is printed without the comments it had inside.   *)
(***************************************************************************)
Printed(value) ==
    IF value.kind = "array" THEN <<Open("[")>> \o value.items \o <<Open("]")>> ELSE value.items

RECURSIVE ReplaceSpans(_, _, _)

\* The edits from the last span to the first, so that no span moves.
ReplaceSpans(doc, spans, edits) ==
    IF DOMAIN edits = {} THEN doc
    ELSE LET last == CHOOSE q \in DOMAIN edits :
                        \A r \in DOMAIN edits : spans[r].from <= spans[q].from
         IN  ReplaceSpans(
                SubSeq(doc, 1, spans[last].from - 1) \o Printed(edits[last])
                    \o SubSeq(doc, spans[last].to + 1, Len(doc)),
                spans, [q \in DOMAIN edits \ {last} |-> edits[q]])

serialized(doc, edits) == ReplaceSpans(doc, assignment_value_spans(doc), edits)
-----------------------------------------------------------------------------
(***************************************************************************)
(* The form.  fields holds what each field shows, original what it showed  *)
(* when the form opened.                                                   *)
(***************************************************************************)
FieldsOf(doc) ==
    [q \in {f.path : f \in collect_form_fields(doc)} |->
        LET f == CHOOSE g \in collect_form_fields(doc) : g.path = q
        IN  [kind |-> f.kind, items |-> f.items]]

MessageRow == << >>

Rows == DOMAIN form.fields \cup {MessageRow}

NewForm(doc) ==
    [doc |-> doc, original |-> FieldsOf(doc), fields |-> FieldsOf(doc),
     selected |-> MessageRow, message |-> FALSE, out |-> << >>, notice |-> "none"]

Changed == {q \in DOMAIN form.fields : form.fields[q] # form.original[q]}

Edits == [q \in Changed |-> form.fields[q]]

FormInit == form \in {NewForm(d) : d \in {e \in Documents : route_for("file", e) = "form"}}

Editing == form.out = << >>

move_selection(q) ==
    /\ Editing /\ q \in Rows \ {form.selected}
    /\ form' = [form EXCEPT !.selected = q]

\* What the keys since the row was selected leave in it.
insert(value) ==
    /\ Editing
    /\ IF form.selected = MessageRow THEN form' = [form EXCEPT !.message = TRUE]
       ELSE form' = [form EXCEPT !.fields[form.selected] = value]

toggle_boolean ==
    /\ Editing /\ form.selected # MessageRow
    /\ form.fields[form.selected].kind = "boolean"
    /\ form' = [form EXCEPT !.fields[form.selected].items =
                    <<Atom("boolean", IF @ = <<Atom("boolean", "true")>> THEN "false" ELSE "true")>>]

\* A value that does not parse as its field's kind.
parse_form_value(q) == form.fields[q].kind = form.original[q].kind

validate_current ==
    /\ form.message
    /\ \A q \in Changed : parse_form_value(q)
    /\ validate_shape(form.doc, serialized(form.doc, Edits))

commit_config_form ==
    /\ Editing
    /\ IF ~validate_current THEN form' = [form EXCEPT !.notice = "refused"]
       ELSE IF Changed = {} THEN form' = [form EXCEPT !.notice = "unchanged"]
       ELSE form' = [form EXCEPT !.out = serialized(form.doc, Edits), !.notice = "committed"]

FormNext ==
    \/ \E q \in Rows : move_selection(q)
    \/ \E v \in Typed : insert(v)
    \/ toggle_boolean
    \/ commit_config_form

FormSpec == FormInit /\ [][FormNext]_form
-----------------------------------------------------------------------------
Layout(doc, spans) ==
    SelectSeq([i \in DOMAIN doc |->
                IF \E q \in DOMAIN spans : i \in spans[q].from..spans[q].to
                THEN [t |-> "value"] ELSE doc[i]],
              LAMBDA k : k.t # "value")

\* The text a form commits parses to the fields the operator was shown, each
\* changed one with the value typed and every other one as it was, and outside the
\* values it is the text the form was opened on: comments, headers, keys and line
\* ends survive (ConfigForm::serialized over assignment_value_spans).
FormWritesWhatItShows ==
    form.out # << >> =>
        /\ parse_toml(form.out)
        /\ FieldsOf(form.out) = form.fields
        /\ Layout(form.out, assignment_value_spans(form.out))
            = Layout(form.doc, assignment_value_spans(form.doc))
=============================================================================
