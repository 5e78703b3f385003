----------------------------- MODULE LogProgram -----------------------------
(***************************************************************************)
(* The log program from its configuration file on: load_configure_file     *)
(* (module Configure), log_runtime_create, configure_handler_destroy,      *)
(* and distor_log_start with the server (module LogServer).  No program of *)
(* the repository goes all the way; test_log.c goes up to                  *)
(* configure_handler_destroy, in this order.                               *)
(*                                                                         *)
(* get_configure_item ends its arguments with a zero in place, and         *)
(* log_runtime_create gives it string literals: where these cannot be      *)
(* written the program ends there (Faults).  The model also follows the    *)
(* builds where they can.                                                  *)
(***************************************************************************)
EXTENDS LogServer, Sequences

CONSTANTS
    Names, NameLen, Keys, Values, Files, ANYTHING,   \* see Configure
    Levels,      \* the values that are one of the letters D, I, W, E and C
    Filling,     \* the values as long as the block they are stored in
    RUNON        \* what strlen makes of one of these: it, and what lies behind

VARIABLES
    file, config_fp, line, sections, section_tail, cur_section, blocks, stage, unmade

confVars == <<file, config_fp, line, sections, section_tail, cur_section, blocks,
              stage, unmade>>

C == INSTANCE Configure

VARIABLES
    rpc,         \* where log_runtime_create is
    log_file, log_sock, log_level,
    held,        \* the blocks of the runtime the pool has given out
    hubs         \* whether the runtime has a hub

runtimeVars == <<rpc, log_file, log_sock, log_level, held, hubs>>
programVars == <<allVars, confVars, runtimeVars>>

LOG == "log"   \* the section log_runtime_create reads, [log]

ASSUME ProgramAssumption ==
    /\ C!ConfigureAssumption
    /\ LOG \in Names /\ {"file", "socket", "level"} \subseteq Keys
    /\ Levels \subseteq Values /\ Filling \subseteq Values \ Levels
    /\ RUNON \notin Values \cup {NULL}

ProgramInit ==
    /\ LogInit
    /\ C!Init
    /\ rpc = "idle"
    /\ log_file = NULL /\ log_sock = NULL /\ log_level = NULL
    /\ held = 0 /\ hubs = FALSE

Load ==
    /\ C!Load
    /\ UNCHANGED <<allVars, runtimeVars>>

\* The handler goes when the runtime was created, or could not be.
Unload ==
    /\ rpc \in {"created", "failed"}
    /\ C!configure_handler_destroy
    /\ UNCHANGED <<allVars, runtimeVars>>

-----------------------------------------------------------------------------
(* log_runtime_create *)

Answer(key) == C!get_configure_item(LOG, key)

\* get_log_level knows the letter, and it is the only one.
IsLevel(value) == value \in Levels

\* The string that begins where a value is stored.  The value has no zero of its
\* own: the rest of its block, which is zeroed, ends it.  If it fills the block the
\* string goes on until there happens to be a zero, maybe at once.
Text(value) == IF value \in Filling THEN {value, RUNON} ELSE {value}

\* A step of log_runtime_create that leads from one place to another.
Step(from, to) ==
    /\ rpc = from
    /\ rpc' = to
    /\ UNCHANGED <<allVars, confVars>>

Begin ==
    /\ stage = "loaded"
    /\ \/ Step("idle", "file") /\ held' = 1
       \/ Step("idle", "failed") /\ UNCHANGED held
    /\ UNCHANGED <<log_file, log_sock, log_level, hubs>>

\* A copy of the string.  The zero meant for its end is written one byte further,
\* behind the block if the copy fills it; what that overwrites is not modelled.
TakeFile ==
    /\ Answer("file") \in Values
    /\ log_file' \in Text(Answer("file"))
    /\ held' = held + 1
    /\ Step("file", "socket")
    /\ UNCHANGED <<log_sock, log_level, hubs>>

TakeSocket ==
    /\ Answer("socket") \in Values
    /\ log_sock' \in Text(Answer("socket"))
    /\ held' = held + 1
    /\ Step("socket", "level")
    /\ UNCHANGED <<log_file, log_level, hubs>>

TakeLevel ==
    /\ IsLevel(Answer("level"))
    /\ log_level' = Answer("level")
    /\ Step("level", "hub")
    /\ UNCHANGED <<log_file, log_sock, held, hubs>>

CreateHub ==
    /\ hubs' = TRUE
    /\ Step("hub", "created")
    /\ UNCHANGED <<log_file, log_sock, log_level, held>>

\* Mutant: log_runtime_destroy frees log_file, set or not.
CreateFails_FreesUnset ==
    /\ rpc = "level" => ~IsLevel(Answer("level"))
    /\ \E from \in {"file", "socket", "level", "hub"} : Step(from, "failed")
    /\ held' = held - 2
    /\ log_file' = NULL
    /\ UNCHANGED <<log_sock, log_level, hubs>>

\* There is no such item, or the level is not one letter, or not a known one, or
\* there is no block or no hub.  log_runtime_destroy frees log_file and the runtime,
\* and not log_sock.  (A key that is looked up through a pointer never set may be
\* answered with NULL.)
CreateFails ==
    /\ rpc = "level" => ~IsLevel(Answer("level"))
    /\ \E from \in {"file", "socket", "level", "hub"} : Step(from, "failed")
    /\ held' = held - (IF log_file = NULL THEN 1 ELSE 2)
    /\ log_file' = NULL
    /\ UNCHANGED <<log_sock, log_level, hubs>>

\* string_strip writes to a string literal, or there is no section for the key and
\* the walk over its items starts anywhere.
Faults ==
    /\ \E from \in {"file", "socket", "level"} : Step(from, "fault")
    /\ UNCHANGED <<log_file, log_sock, log_level, held, hubs>>

log_runtime_create ==
    \/ Begin \/ TakeFile \/ TakeSocket \/ TakeLevel \/ CreateHub
    \/ CreateFails \/ Faults

-----------------------------------------------------------------------------
\* distor_log_start and the server run, on what was created.
Running ==
    /\ rpc = "created" /\ stage = "destroyed"
    /\ UNCHANGED <<confVars, runtimeVars>>

ProgramNext ==
    \/ Load \/ log_runtime_create \/ Unload
    \/ LogNext /\ Running

ProgramSpec == ProgramInit /\ [][ProgramNext]_programVars

\* As LogFairSpec: once hub_main runs it keeps running.
ProgramFairSpec == ProgramSpec /\ WF_programVars(Serve /\ Running)

-----------------------------------------------------------------------------
(* Properties *)

\* The variables stay in their types.
ProgramTypeOK ==
    /\ LogTypeOK
    /\ C!TypeOK
    /\ rpc \in {"idle", "file", "socket", "level", "hub", "created", "failed", "fault"}
    /\ {log_file, log_sock} \subseteq Values \cup {RUNON, NULL}
    /\ log_level \in Values \cup {NULL}
    /\ held \in 0 .. 3 /\ hubs \in BOOLEAN

\* A lookup answers with what the file says last of a key in the first section of
\* the name (see LookupReturnsLast of Configure), and the runtime is what the file
\* says of [log], also when the handler is destroyed and the answers with it; where
\* a value fills its block, what the file says and more (configure_handler.c:75, 79).
RuntimeFromFile ==
    /\ C!LookupReturnsLast
    /\ rpc # "failed" /\ C!Findable(LOG) =>
          LET said(key) == C!Said(Min(C!Matching(LOG)), key)
          IN  /\ log_file \in {NULL} \cup Text(said("file"))
              /\ log_sock \in {NULL} \cup Text(said("socket"))
              /\ log_level \in {NULL, said("level")}

\* When the handler is destroyed, or could not be loaded, and the runtime could not
\* be created, the blocks still out are the lost ones: a section's own block, which
\* no destroy frees, and the name of the socket (log.c:33).  No block is given back
\* twice.  (This holds where each section got its blocks; the file stays open.  See
\* Configure.)
OnlyKnownLeaks ==
    /\ C!OnlySectionsLeak
    /\ rpc = "failed" => held = IF log_sock = NULL THEN 0 ELSE 1
=============================================================================
