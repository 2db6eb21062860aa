-------------------------------- MODULE Confgen --------------------------------
(***************************************************************************)
(* bbbconfgen: generates a file from a template line by line, with the     *)
(* values Redis has at that time.  Two calls can generate the same file at *)
(* once; each writes at its own offset of the file both have truncated.    *)
(*                                                                         *)
(* A line of the template is the sequence of its placeholders, a line of   *)
(* the file what became of them; a placeholder is a key with an option.    *)
(* The keys of a line are read in one step.                                *)
(***************************************************************************)
EXTENDS Naturals, Sequences

CONSTANTS Processes,      \* processes that generate the file
          Options,        \* options of the first placeholder of a line
          FlagOptions,    \* options of the second one
          MaxIncidents    \* bound on changes and failures around them

\* The help text does not mention #check, which the code treats like #rmLineFalse.
ASSUME ConfgenAssumption == MaxIncidents \in Nat /\ "#check" \notin Options \cup FlagOptions

VARIABLES keys,                \* Redis: values, "" for a key that is not set
          server, auth,        \* Redis answers; it asks for a password
          template, outputArg, \* template file; is --output given
          step, line, offset,  \* per process: position, line of the template, of the file
          exit,                \* per process: exit code
          file,
          incidents,
          disturbed            \* history: keys or Redis changed after a process began

genVars == <<keys, server, auth, template, outputArg, step, line, offset, exit, file, incidents,
             disturbed>>

KeyNames == {"key", "flag"}
Values == {"", "0", "1", "text"}
Old == <<<<"old">>, <<"old">>, <<"old">>, <<"old">>>>
Hole == <<"nul">>
OutputLine == <<[key |-> "key", option |-> "#output:"]>>
Templates == {<<first, <<[key |-> "key", option |-> o], [key |-> "flag", option |-> p]>>, <<>>>> :
              first \in {OutputLine, <<>>}, o \in Options, p \in FlagOptions}
Pieces == {"old", "nul", "", "0", "1", "text", "default", "placeholder"}

GenTypeOK ==
    /\ keys \in [KeyNames -> Values] /\ server \in BOOLEAN /\ auth \in BOOLEAN
    /\ template \in Templates /\ outputArg \in BOOLEAN
    /\ step \in [Processes -> {"connect", "template", "output", "parse", "done"}]
    /\ line \in [Processes -> 1..4] /\ offset \in [Processes -> 0..3]
    /\ exit \in [Processes -> 0..2]
    /\ file \in Seq(Seq(Pieces))
    /\ incidents \in 0..MaxIncidents /\ disturbed \in BOOLEAN

GenInit ==
    /\ keys \in [KeyNames -> Values] /\ server = TRUE /\ auth = FALSE
    /\ template \in Templates /\ outputArg \in BOOLEAN
    /\ step = [p \in Processes |-> "connect"] /\ exit = [p \in Processes |-> 0]
    /\ line = [p \in Processes |-> 1] /\ offset = [p \in Processes |-> 0]
    /\ file = Old /\ incidents = 0 /\ disturbed = FALSE

Begun == {p \in Processes : step[p] # "connect"}
surroundings == <<keys, server, auth, template, outputArg, incidents, disturbed>>

\* main: log.Fatal or a panic ends the process.
Exit(p, code) == step' = [step EXCEPT ![p] = "done"] /\ exit' = [exit EXCEPT ![p] = code]

\* Dial and PING.  A password is passed on only if there is none, so one that Redis asks
\* for is never given.
ConnectRedis(p) ==
    /\ step[p] = "connect"
    /\ IF server /\ ~auth THEN step' = [step EXCEPT ![p] = "template"] /\ UNCHANGED exit
       ELSE Exit(p, 1)
    /\ UNCHANGED <<surroundings, line, offset, file>>

OpenTemplateFile(p) ==
    /\ step[p] = "template" /\ step' = [step EXCEPT ![p] = "output"]
    /\ UNCHANGED <<surroundings, line, offset, exit, file>>

\* Mutant of OpenOutputFile: the file is opened for writing and not truncated.
OpenOutputFileNoTruncate(p) ==
    /\ step[p] = "output"
    /\ IF outputArg \/ template[1] = OutputLine
       THEN step' = [step EXCEPT ![p] = "parse"] /\ UNCHANGED exit
       ELSE Exit(p, 1)
    /\ UNCHANGED <<surroundings, line, offset, file>>

\* os.Create truncates the file; its name is an argument or on the template's first line.
OpenOutputFile(p) ==
    /\ step[p] = "output"
    /\ IF outputArg \/ template[1] = OutputLine
       THEN step' = [step EXCEPT ![p] = "parse"] /\ file' = <<>> /\ UNCHANGED exit
       ELSE Exit(p, 1) /\ UNCHANGED file
    /\ UNCHANGED <<surroundings, line, offset>>

--------------------------------------------------------------------------------
\* parseTemplate.

\* redis.String(Do("GET")) with its error ignored.
Get(k) == IF server THEN keys[k] ELSE ""

\* Does the placeholder drop its line?
DropsLine(h) ==
    \/ h.option = "#output:"
    \/ h.option \in {"#check", "#rmLineFalse"} /\ Get(h.key) \in {"0", ""}
    \/ h.option = "#rmLineTrue" /\ Get(h.key) = "1"
    \/ h.option = "#rmLine" /\ Get(h.key) = ""

\* Mutant of Replacement: the options come before the value.
ReplacementOptionFirst(h) ==
    CASE h.option \in {"#check", "#rmLineFalse", "#rmLineTrue", "#rm"} -> ""
      [] h.option = "#default:" -> "default"
      [] OTHER -> IF Get(h.key) # "" THEN Get(h.key) ELSE "placeholder"

\* What the placeholder is replaced by.
Replacement(h) ==
    IF h.option \in {"#check", "#rmLineFalse", "#rmLineTrue"} THEN ""
    ELSE IF Get(h.key) # "" THEN Get(h.key)
    ELSE CASE h.option = "#rm" -> ""
           [] h.option = "#default:" -> "default"
           [] OTHER -> "placeholder"

\* A write beyond the end of the file leaves a hole.
WriteAt(f, i, piece) ==
    [j \in 1..(IF Len(f) > i THEN Len(f) ELSE i + 1) |->
        IF j = i + 1 THEN piece ELSE IF j <= Len(f) THEN f[j] ELSE Hole]

\* One line: an empty placeholder panics, a dropped line is not written.
ParseLine(p) == LET l == template[line[p]] IN
    /\ step[p] = "parse" /\ line[p] <= Len(template)
    /\ IF \E i \in DOMAIN l : l[i].option = "empty"
       THEN Exit(p, 2) /\ UNCHANGED <<line, offset, file>>
       ELSE /\ line' = [line EXCEPT ![p] = @ + 1]
            /\ IF \E i \in DOMAIN l : DropsLine(l[i])
               THEN UNCHANGED <<offset, file>>
               ELSE /\ file' = WriteAt(file, offset[p], [i \in DOMAIN l |-> Replacement(l[i])])
                    /\ offset' = [offset EXCEPT ![p] = @ + 1]
            /\ UNCHANGED <<step, exit>>
    /\ UNCHANGED surroundings

TemplateEnds(p) ==
    /\ step[p] = "parse" /\ line[p] > Len(template)
    /\ Exit(p, 0)
    /\ UNCHANGED <<surroundings, line, offset, file>>

--------------------------------------------------------------------------------
Incident == incidents < MaxIncidents /\ incidents' = incidents + 1

\* A file cannot be opened, or the process is killed.
ProcessFails(p) ==
    /\ step[p] \in {"template", "output", "parse"} /\ Incident
    /\ Exit(p, 1)
    /\ UNCHANGED <<keys, server, auth, template, outputArg, line, offset, file, disturbed>>

RedisChanges ==
    /\ Incident /\ disturbed' = (Begun # {})
    /\ \/ \E k \in KeyNames : keys' = [keys EXCEPT ![k] = "1"] /\ UNCHANGED <<server, auth>>
       \/ server' = ~server /\ UNCHANGED <<keys, auth>>
       \/ auth' = ~auth /\ UNCHANGED <<keys, server>>
    /\ UNCHANGED <<template, outputArg, step, line, offset, exit, file>>

GenNext ==
    \/ \E p \in Processes : \/ ConnectRedis(p) \/ OpenTemplateFile(p) \/ OpenOutputFile(p)
                            \/ ParseLine(p) \/ TemplateEnds(p) \/ ProcessFails(p)
    \/ RedisChanges

--------------------------------------------------------------------------------
\* The help text, for one placeholder: what becomes of it, or "drop" for its line.
Documented(h) == LET v == keys[h.key] IN
    CASE h.option = "#output:" -> "drop"
      [] h.option = "#rmLineTrue" -> IF v = "1" THEN "drop" ELSE ""
      [] h.option = "#rmLineFalse" -> IF v \in {"", "0"} THEN "drop" ELSE ""
      [] OTHER -> IF v # "" THEN v
                  ELSE CASE h.option = "#rm" -> "" [] h.option = "#rmLine" -> "drop"
                         [] h.option = "#default:" -> "default" [] OTHER -> "placeholder"

\* What it says of a line of the template.
PromisedLine(n) == LET l == template[n] IN
    IF \E i \in DOMAIN l : Documented(l[i]) = "drop" THEN <<>>
    ELSE <<[i \in DOMAIN l |-> Documented(l[i])]>>

\* The file the help text promises.
Promised == PromisedLine(1) \o PromisedLine(2) \o PromisedLine(3)

\* Processes that generate the same file at once, in any interleaving of their truncations
\* and writes, leave the file that the help text promises if all of them succeed and Redis
\* does not change meanwhile.  Until then, and if processes fail, the file is untouched, or
\* it holds no old line and no new one at a wrong place: lines are missing at most.
GeneratedAsPromised ==
    ~disturbed =>
        /\ Begun # {} /\ (\A p \in Begun : step[p] = "done" /\ exit[p] = 0) => file = Promised
        /\ \/ file = Old
           \/ /\ Len(file) <= Len(Promised)
              /\ \A i \in DOMAIN file : file[i] \in {Hole, Promised[i]}

================================================================================
