----------------------------- MODULE SaiProfile -----------------------------
(***************************************************************************)
(* The profile of src/src/saiagent.c: the command line names files, each   *)
(* is parsed into a list of parameters, and the SAI looks parameters up by *)
(* name or enumerates them with a position the agent keeps.                *)
(***************************************************************************)
EXTENDS Naturals, SequencesExt

CONSTANTS Name, Value,  \* names and values of parameters
          Bad,          \* a line that does not parse: a comment, a blank line
          None,         \* the null pointer
          End,          \* -1 from sai_profile_get_next_value
          MaxLines,     \* bound: lines in a file
          MaxOpts       \* bound: options on the command line

Param == [name : Name, value : Value]

ASSUME ProfileAssumption ==
  /\ Bad \notin Param /\ End \notin Param /\ None \notin Value
  /\ MaxLines \in Nat /\ MaxOpts \in Nat

Files == UNION {[1..n -> Param \cup {Bad}] : n \in 0..MaxLines}

VARIABLES
  pc,        \* where main is
  opts,      \* number of options processed
  lines,     \* what fgets has not read of the file being parsed
  read,      \* param_last: the parameters read from it, newest first
  params,    \* opts->profile_params, later g_profile_params
  iter,      \* g_iter: a position in params, 0 for NULL
  call,      \* the latest enumeration call: "restart" (null variable), "next"
  answer,    \* what it gave
  found,     \* what the latest sai_profile_get_value was asked and gave
  file,      \* history: the file being parsed
  loaded     \* history: the latest file that was parsed to its end

parser == <<lines, read, file>>
profile == <<params, loaded>>
service == <<iter, call, answer, found>>
vars == <<pc, opts, parser, profile, service>>

TypeOK ==
  /\ pc \in {"options", "parse", "serve", "no_profile", "failed"}
  /\ opts \in 0..MaxOpts
  /\ lines \in Seq(Param \cup {Bad}) /\ file \in Seq(Param \cup {Bad})
  /\ read \in Seq(Param) /\ params \in Seq(Param) /\ loaded \in Seq(Param)
  /\ iter \in 0..Len(params)
  /\ call \in {"restart", "next"} /\ answer \in Param \cup {End}
  /\ found \in [name : Name, value : Value \cup {None}] \cup {None}

Init ==
  /\ pc = "options" /\ opts = 0
  /\ lines = << >> /\ read = << >> /\ params = << >> /\ iter = 0
  /\ call = "restart" /\ answer = End /\ found = None
  /\ file = << >> /\ loaded = << >>
-----------------------------------------------------------------------------
(* cmd_line_process, one option at a time, and sai_profile_parse, one line *)
(* at a time.                                                              *)
NextOption == pc = "options" /\ opts < MaxOpts /\ opts' = opts + 1

OpenProfile(f) ==
  /\ NextOption
  /\ pc' = "parse"
  /\ lines' = f /\ read' = << >>
  /\ file' = f
  /\ UNCHANGED <<profile, service>>

\* -f: the file is opened and closed again, and not used.
PortMap ==
  /\ NextOption
  /\ UNCHANGED <<pc, parser, profile, service>>

\* A file that cannot be opened, or an unknown option.
OptionFails ==
  /\ NextOption
  /\ pc' = "failed"
  /\ UNCHANGED <<parser, profile, service>>

ParseLine ==
  /\ pc = "parse" /\ lines # << >> /\ Head(lines) # Bad
  /\ read' = <<Head(lines)>> \o read
  /\ lines' = Tail(lines)
  /\ UNCHANGED <<pc, opts, file, profile, service>>

MutLineFails ==             \* mutant: what was read so far is kept
  /\ pc = "parse" /\ lines # << >>
  /\ pc' = "options"
  /\ params' = read
  /\ UNCHANGED <<opts, parser, loaded, service>>

\* The line does not parse, or calloc failed: what was read from the file is
\* dropped, and the status is OK.
LineFails ==
  /\ pc = "parse" /\ lines # << >>
  /\ pc' = "options"
  /\ UNCHANGED <<opts, parser, profile, service>>

ParseEnds ==
  /\ pc = "parse" /\ lines = << >>
  /\ pc' = "options"
  /\ params' = read /\ loaded' = file
  /\ UNCHANGED <<opts, parser, service>>
-----------------------------------------------------------------------------
(* main, between the command line and the SAI.                             *)
NoProfile ==
  /\ pc = "options" /\ params = << >>
  /\ pc' = "no_profile"
  /\ UNCHANGED <<opts, parser, profile, service>>

MutStart ==                 \* mutant: g_iter is left null
  /\ pc = "options" /\ params # << >>
  /\ pc' = "serve"
  /\ UNCHANGED <<opts, parser, profile, service>>

\* g_iter is set before sai_api_initialize hands the services to the SAI.
Start ==
  /\ pc = "options" /\ params # << >>
  /\ pc' = "serve"
  /\ iter' = 1
  /\ UNCHANGED <<opts, parser, profile, call, answer, found>>
-----------------------------------------------------------------------------
(* The services: sai_profile_get_value and sai_profile_get_next_value.     *)
MutLookup(n) ==             \* mutant: the search goes on to the last match
  LET hits == {i \in DOMAIN params : params[i].name = n}
  IN  IF hits = {} THEN None
      ELSE params[CHOOSE i \in hits : \A j \in hits : j <= i].value

\* The first parameter of the list with this name.
Lookup(n) ==
  LET hits == {i \in DOMAIN params : params[i].name = n}
  IN  IF hits = {} THEN None
      ELSE params[CHOOSE i \in hits : \A j \in hits : i <= j].value

GetValue(n) ==
  /\ pc = "serve"
  /\ found' = [name |-> n, value |-> Lookup(n)]
  /\ UNCHANGED <<pc, opts, parser, profile, iter, call, answer>>

\* A null variable restarts the enumeration.
Restart ==
  /\ pc = "serve"
  /\ iter' = 1 /\ call' = "restart" /\ answer' = End
  /\ UNCHANGED <<pc, opts, parser, profile, found>>

\* So does the end of the list.
GetNextAtEnd ==
  /\ pc = "serve" /\ iter = 0
  /\ iter' = 1 /\ call' = "next" /\ answer' = End
  /\ UNCHANGED <<pc, opts, parser, profile, found>>

GetNext ==
  /\ pc = "serve" /\ iter # 0
  /\ iter' = IF iter = Len(params) THEN 0 ELSE iter + 1
  /\ call' = "next" /\ answer' = params[iter]
  /\ UNCHANGED <<pc, opts, parser, profile, found>>

Next ==
  \/ \E f \in Files : OpenProfile(f)
  \/ PortMap \/ OptionFails
  \/ ParseLine \/ LineFails \/ ParseEnds
  \/ NoProfile \/ Start
  \/ \E n \in Name : GetValue(n)
  \/ Restart \/ GetNextAtEnd \/ GetNext

Spec == Init /\ [][Next]_vars
-----------------------------------------------------------------------------
(* The parameters are those of one whole file, newest first, whatever      *)
(* files, good and bad, were named before and after it: a file that fails  *)
(* halfway adds nothing and takes nothing away (saiagent.c:38-50).         *)
AllOrNothing == params = Reverse(loaded)

(* A lookup gives what the last line of the file with that name says       *)
(* (saiagent.c:45, 57-62), and NULL only if no line has the name.          *)
LookupIsLastDefinition ==
  found # None =>
    IF \E i \in DOMAIN loaded : loaded[i].name = found.name
    THEN \E i \in DOMAIN loaded :
           /\ loaded[i] = found
           /\ \A j \in (i + 1)..Len(loaded) : loaded[j].name # found.name
    ELSE found.value = None

(* Refinement: the enumeration hands out every line of the file once       *)
(* between two ends of the list (saiagent.c:68-84).                        *)
E == INSTANCE Enumeration WITH
       content <- IF pc = "serve" THEN loaded ELSE << >>,
       todo    <- IF iter = 0 THEN {} ELSE 1..(Len(params) + 1 - iter)

ImplementsEnumeration == E!Spec
=============================================================================
