----------------------------- MODULE Configure -----------------------------
(***************************************************************************)
(* The configuration (configure_handler.c): load_configure_file reads an   *)
(* ini file into a list of sections, each with a list of items, the newest *)
(* first; get_configure_item looks a value up.                             *)
(*                                                                         *)
(* A line is a record: a section with its name, an item with key and value,*)
(* a line to skip (blank or a comment), or a bad one (no "=", or nothing   *)
(* on one side of it).  string_strip and string_split_key_value, which     *)
(* tell these apart, work on one line and are the kinds of lines.  A line  *)
(* of MAX_CONFIG_LINE bytes or more is read as two.  A value is stored with *)
(* no zero behind it; how the reader of an answer finds its end is for the *)
(* module that reads it to say.                                            *)
(*                                                                         *)
(* Blocks of the pool are counted.  A request may fail.  The memory the    *)
(* pool gives out is taken to be zeroed, as that of a new process is: the  *)
(* code never sets section_head and section_tail of the handler, item_head *)
(* of a section whose name gets no block, and key and value of an item     *)
(* whose line is bad, and reads them all.                                  *)
(***************************************************************************)
EXTENDS Integers, Sequences, FiniteSets, SequencesExt, FiniteSetsExt

CONSTANTS
    Names, NameLen,  \* names of sections, and the length of each
    Keys, Values,
    Files,           \* the files that may be loaded: sequences of lines
    NULL, ANYTHING   \* no answer, and that of a pointer never set

Lines ==
    [kind : {"section"}, name : Names]
    \cup [kind : {"item"}, key : Keys, value : Values]
    \cup [kind : {"bad", "skip"}]

\* What the module that instantiates this one assumes of the constants.
ConfigureAssumption ==
    /\ NameLen \in [Names -> Nat]
    /\ Files \subseteq Seq(Lines)
    /\ NULL \notin Values \cup {ANYTHING} /\ ANYTHING \notin Values

VARIABLES
    file,          \* the file
    config_fp,     \* whether it is open
    line,          \* the number of lines read
    sections,      \* the sections reachable from section_head
    section_tail,  \* whether section_tail is not NULL
    cur_section,   \* whether cur_section is; if so it is the last of sections
    blocks,        \* the blocks the pool has given out
    stage,         \* where load_configure_file is
    unmade         \* history: the numbers of the lines that gave nothing
                   \* because a request failed

vars == <<file, config_fp, line, sections, section_tail, cur_section, blocks,
          stage, unmade>>

Init ==
    /\ file \in Files
    /\ config_fp = FALSE /\ line = 0
    /\ sections = <<>> /\ section_tail = FALSE /\ cur_section = FALSE
    /\ blocks = 0
    /\ stage = "open"
    /\ unmade = {}

\* The items that can be reached: the place of the section, and of the item in it.
Items == UNION {{s} \X DOMAIN sections[s].items : s \in DOMAIN sections}

\* The blocks configure_handler_destroy finds and frees: the handler, the name of
\* each section, and item, key and value of each item.  A section's own block is
\* not among them.
Reachable == 1 + Len(sections) + 3 * Cardinality(Items)

\* The file is not there, or it is and there is no block for the handler.
OpenFails ==
    /\ stage = "open"
    /\ stage' = "failed"
    /\ config_fp' \in BOOLEAN
    /\ UNCHANGED <<file, line, sections, section_tail, cur_section, blocks, unmade>>

Open ==
    /\ stage = "open"
    /\ stage' = "load"
    /\ config_fp' = TRUE
    /\ blocks' = 1
    /\ UNCHANGED <<file, line, sections, section_tail, cur_section, unmade>>

\* The next line, if it is of this kind.
Line(kind) ==
    /\ stage = "load"
    /\ line < Len(file)
    /\ file[line + 1].kind = kind
    /\ line' = line + 1
    /\ UNCHANGED <<file, config_fp>>

SkipLine ==
    /\ Line("skip")
    /\ UNCHANGED <<sections, section_tail, cur_section, blocks, stage, unmade>>

\* The new section goes behind section_tail.  If that is NULL it becomes the first
\* one, and the sections there were are lost.
NewSection ==
    /\ Line("section")
    /\ sections' = Append(IF section_tail THEN sections ELSE <<>>,
                          [name |-> file[line'].name, items |-> <<>>])
    /\ section_tail' = TRUE /\ cur_section' = TRUE
    /\ blocks' = blocks + 2
    /\ UNCHANGED <<stage, unmade>>

\* There is no block for the section, or none for its name (then the section's
\* block stays out).  The code checks p where it means cur_section: it goes on,
\* with a section_tail that is NULL.
NoSection ==
    /\ Line("section")
    /\ blocks' \in {blocks, blocks + 1}
    /\ sections' = IF section_tail THEN sections ELSE <<>>
    /\ section_tail' = FALSE /\ cur_section' = FALSE
    /\ unmade' = unmade \cup {line'}
    /\ UNCHANGED stage

\* Mutant: an item goes behind those of its section.
NewItem_Behind ==
    /\ Line("item")
    /\ cur_section
    /\ LET item == [key |-> file[line'].key, value |-> file[line'].value]
       IN  sections' = [sections EXCEPT ![Len(sections)].items = Append(@, item)]
    /\ blocks' = blocks + 3
    /\ UNCHANGED <<section_tail, cur_section, stage, unmade>>

\* The item goes in front of those of its section.
NewItem ==
    /\ Line("item")
    /\ cur_section
    /\ LET item == [key |-> file[line'].key, value |-> file[line'].value]
       IN  sections' = [sections EXCEPT ![Len(sections)].items = <<item>> \o @]
    /\ blocks' = blocks + 3
    /\ UNCHANGED <<section_tail, cur_section, stage, unmade>>

\* Mutant: what an item whose value gets no block has taken stays out.
NoItem_KeepsBlock ==
    /\ cur_section
    /\ \/ Line("bad") /\ UNCHANGED unmade
       \/ Line("item") /\ unmade' = unmade \cup {line'}
    /\ blocks' \in {blocks, blocks + 1}
    /\ UNCHANGED <<sections, section_tail, cur_section, stage>>

\* A bad line, or a block is missing: what the item has taken is given back.
NoItem ==
    /\ cur_section
    /\ \/ Line("bad") /\ UNCHANGED unmade
       \/ Line("item") /\ unmade' = unmade \cup {line'}
    /\ UNCHANGED <<sections, section_tail, cur_section, blocks, stage>>

\* An item outside any section: the handler is destroyed, and there is no answer.
Misplaced ==
    /\ ~cur_section
    /\ Line("bad") \/ Line("item")
    /\ blocks' = blocks - Reachable
    /\ sections' = <<>>
    /\ stage' = "failed"
    /\ UNCHANGED <<section_tail, cur_section, unmade>>

EndOfFile ==
    /\ stage = "load"
    /\ line = Len(file)
    /\ stage' = "loaded"
    /\ UNCHANGED <<file, config_fp, line, sections, section_tail, cur_section,
                   blocks, unmade>>

Load ==
    \/ OpenFails \/ Open \/ SkipLine \/ NewSection \/ NoSection
    \/ NewItem \/ NoItem \/ Misplaced \/ EndOfFile

configure_handler_destroy ==
    /\ stage = "loaded"
    /\ blocks' = blocks - Reachable
    /\ sections' = <<>> /\ section_tail' = FALSE /\ cur_section' = FALSE
    /\ stage' = "destroyed"
    /\ UNCHANGED <<file, config_fp, line, unmade>>

\* Of the first section whose name is as long as the one asked for, the value of the
\* first item with the key.  Without such a section the walk starts from a pointer
\* never set.
get_configure_item(name, key) ==
    LET found == SelectInSeq(sections, LAMBDA s : NameLen[s.name] = NameLen[name])
        items == sections[found].items
        item  == SelectInSeq(items, LAMBDA i : i.key = key)
    IN  IF found = 0 THEN ANYTHING
        ELSE IF item = 0 THEN NULL ELSE items[item].value

-----------------------------------------------------------------------------
(* Properties *)

\* The variables stay in their types.
TypeOK ==
    /\ file \in Files
    /\ config_fp \in BOOLEAN
    /\ line \in 0 .. Len(file)
    /\ sections \in Seq([name : Names,
                         items : Seq([key : Keys, value : Values])])
    /\ section_tail \in BOOLEAN /\ cur_section \in BOOLEAN
    /\ blocks \in Nat
    /\ stage \in {"open", "load", "loaded", "failed", "destroyed"}
    /\ unmade \subseteq 1 .. line

Headers == {h \in 1 .. line : file[h].kind = "section"}

\* The headers a lookup of this name takes for the right one.
Matching(name) == {h \in Headers : NameLen[file[h].name] = NameLen[name]}

\* The lines that set a key in the section of header h.
Settings(h, key) ==
    {i \in (1 .. line) \ unmade :
        /\ file[i].kind = "item" /\ file[i].key = key
        /\ h < i /\ Headers \cap (h + 1 .. i) = {}}

\* What the file says of a key in the section of header h: its last setting there.
Said(h, key) ==
    IF Settings(h, key) = {} THEN NULL ELSE file[Max(Settings(h, key))].value

\* Every section got its blocks, and the first section with a name as long as this
\* one is of this name.
Findable(name) ==
    /\ Headers \cap unmade = {}
    /\ Matching(name) # {} /\ file[Min(Matching(name))].name = name

\* A lookup answers with what the file says last of the key in the first section
\* of the name, whatever items before or after got no block.  It does so only where
\* the name is Findable: get_configure_item compares the lengths of the names
\* alone (configure_handler.c:222), and a section without a block makes
\* load_configure_file lose the ones before it.
LookupReturnsLast ==
    stage = "loaded" =>
        \A name \in Names, key \in Keys :
            Findable(name) => get_configure_item(name, key)
                                = Said(Min(Matching(name)), key)

\* Once the handler is destroyed, or the load has failed, each section's own block
\* is still out, and nothing else is, but where a section got no block; no block is
\* given back twice.  And a file of which a line was read is still open: on no path
\* is config_fp closed (configure_handler.c:152-209).
OnlySectionsLeak ==
    stage \in {"destroyed", "failed"} =>
        /\ Headers \cap unmade = {} => blocks = Cardinality(Headers)
        /\ line > 0 => config_fp
=============================================================================
