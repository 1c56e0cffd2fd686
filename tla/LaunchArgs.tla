------------------------------ MODULE LaunchArgs ------------------------------
(***************************************************************************)
(* The launcher's command-line front end, launchargs.py: get_args() runs   *)
(* the argparse parser of get_parser() (port and node-count validators,    *)
(* --hostlist split at commas, the label-verbosity override), and          *)
(* parse_hosts() then reads the host list or host file and checks every    *)
(* name with is_hostname_valid().                                          *)
(*                                                                         *)
(* Text is a sequence of characters.  "a" stands for any of [A-Za-z0-9],   *)
(* which the validator treats alike; "NL" is the newline, the only         *)
(* whitespace character of the model.  NameMax and LabelMax stand for the  *)
(* 255 and 63 of is_hostname_valid, scaled down so that short names reach  *)
(* both limits.                                                            *)
(***************************************************************************)
EXTENDS Integers, Sequences, SequencesExt

CONSTANTS
    ListChars,  \* the characters a --hostlist value is made of
    FileChars,  \* the characters a host file is made of
    MaxText,    \* longest --hostlist value or host-file text
    NameMax,    \* 255: longest hostname is_hostname_valid accepts
    LabelMax,   \* 63: longest label of the label regex
    PortIn,     \* integers given to -p/--port
    NodeIn,     \* integers given to -N/--nodes
    NoArg       \* model value: the option is absent

LDH == {"a", "-"}           \* [A-Z\d-] under re.IGNORECASE
Whitespace == {"NL"}

ASSUME LaunchAssumptions ==
    /\ ListChars \subseteq {"a", "-", ".", ",", "NL"}
    /\ FileChars \subseteq {"a", "-", ".", ",", "NL"}
    /\ MaxText \in Nat
    /\ NameMax \in Nat \ {0} /\ LabelMax \in Nat \ {0}
    /\ PortIn \subseteq Int /\ NodeIn \subseteq Int
    /\ NoArg \notin PortIn \cup NodeIn

(***************************************************************************)
(* Text handling, by what Python's str methods do.                         *)
(***************************************************************************)
\* s.split(d): the pieces between the occurrences of d, one more than there
\* are occurrences.
SplitAt(s, d) ==
    LET cut == <<0>> \o SelectSeq([k \in 1..Len(s) |-> k], LAMBDA k : s[k] = d)
                     \o <<Len(s) + 1>>
    IN  [i \in 1..Len(cut) - 1 |-> SubSeq(s, cut[i] + 1, cut[i + 1] - 1)]

\* s.strip()
Strip(s) ==
    LET keep == {k \in DOMAIN s : s[k] \notin Whitespace}
    IN  IF keep = {} THEN <<>> ELSE SubSeq(s, Min(keep), Max(keep))

\* f.readlines(): the lines, each ending in its newline (dropped here, since
\* every line is stripped), and no empty piece after a final newline.
ReadLines(t) ==
    IF t = <<>> \/ Last(t) = "NL" THEN Front(SplitAt(t, "NL")) ELSE SplitAt(t, "NL")

\* SplitArgsAtComma: [v.strip() for v in values.split(',')]
SplitArgsAtComma(t) == [i \in DOMAIN SplitAt(t, ",") |-> Strip(SplitAt(t, ",")[i])]

(***************************************************************************)
(* The validators.                                                         *)
(***************************************************************************)
\* non_negative_int and valid_port_int: accepted or ArgumentTypeError.
NonNegativeInt(v) == ~(v < 0)
ValidPortInt(v) == ~(v < 1024 \/ v > 65536)

\* Mutant: the label regex without the (?<!-) lookbehind.
LabelOKNoLookbehind(x) ==
    \E n \in 1..LabelMax :
        /\ n <= Len(x) /\ x[1] # "-"
        /\ \A k \in 1..n : x[k] \in LDH
        /\ n = Len(x) \/ (n = Len(x) - 1 /\ x[Len(x)] = "NL")

\* allowed.match(x) for (?!-)[A-Z\d-]{1,63}(?<!-)$: re.match anchors at the
\* start only, and $ matches at the end or before a newline that ends x.
LabelOK(x) ==
    \E n \in 1..LabelMax :
        /\ n <= Len(x) /\ x[1] # "-"
        /\ \A k \in 1..n : x[k] \in LDH
        /\ x[n] # "-"
        /\ n = Len(x) \/ (n = Len(x) - 1 /\ x[Len(x)] = "NL")

\* Mutant: is_hostname_valid without the trailing-dot strip.
IsHostnameValidNoStrip(h) ==
    CASE Len(h) > NameMax -> "invalid"
      [] h = <<>> -> "IndexError"
      [] OTHER -> IF \A l \in Range(SplitAt(h, ".")) : LabelOK(l)
                  THEN "valid" ELSE "invalid"

\* is_hostname_valid: hostname[-1] raises IndexError on the empty name.
IsHostnameValid(h) ==
    CASE Len(h) > NameMax -> "invalid"
      [] h = <<>> -> "IndexError"
      [] OTHER ->
           LET b == IF Last(h) = "." THEN Front(h) ELSE h
           IN  IF \A l \in Range(SplitAt(b, ".")) : LabelOK(l)
               THEN "valid" ELSE "invalid"

(***************************************************************************)
(* The reference: the specification's hostname rule.  A name is made of   *)
(* letters, digits, hyphens and dots; every label matches the regex as a   *)
(* whole, the name has at most 255 characters, and one trailing dot (the   *)
(* root of a fully qualified name) is allowed.                             *)
(***************************************************************************)
SpecLabel(x) ==
    /\ x \in Seq(LDH)
    /\ 1 <= Len(x) /\ Len(x) <= LabelMax
    /\ x[1] # "-" /\ Last(x) # "-"

SpecHostname(h) ==
    /\ h \in Seq(LDH \cup {"."})
    /\ h # <<>> /\ Len(h) <= NameMax
    /\ \A l \in Range(SplitAt(IF Last(h) = "." THEN Front(h) ELSE h, ".")) :
          SpecLabel(l)

(***************************************************************************)
(* The command lines get_parser() accepts, as far as this model tells them *)
(* apart: the host group is mutually exclusive, -p and -N may be absent.   *)
(***************************************************************************)
Cmds ==
    [port : PortIn \cup {NoArg}, nodes : NodeIn \cup {NoArg},
     basic : BOOLEAN, verbose : BOOLEAN, source : {"none"}, text : {<<>>}]
    \cup
    [port : PortIn \cup {NoArg}, nodes : NodeIn \cup {NoArg},
     basic : BOOLEAN, verbose : BOOLEAN, source : {"hostlist"},
     text : BoundedSeq(ListChars, MaxText)]
    \cup
    [port : PortIn \cup {NoArg}, nodes : NodeIn \cup {NoArg},
     basic : BOOLEAN, verbose : BOOLEAN, source : {"hostfile"},
     text : BoundedSeq(FileChars, MaxText)]

Phases == {"args", "hosts", "check", "exit", "done"}
Results == {"none", "ok", "ValueError", "IndexError", "ArgumentError"}

VARIABLES
    cmd,    \* the command line (and the host file's text)
    phase,  \* where the front end is
    args,   \* what get_args returned
    hosts,  \* the host list parse_hosts checks
    i,      \* the host parse_hosts is at
    result  \* how parse_hosts ended

vars == <<cmd, phase, args, hosts, i, result>>

Init ==
    /\ cmd \in Cmds
    /\ phase = "args"
    /\ args = [port |-> NoArg, nodes |-> NoArg, no_label |-> TRUE]
    /\ hosts = <<>>
    /\ i = 1
    /\ result = "none"

\* get_args: parse_args exits on an ArgumentTypeError of a validator;
\* otherwise --basic-label/--verbose-label clear no_label, whose default
\* is True, and the None values are dropped.
GetArgs ==
    /\ phase = "args"
    /\ IF \/ cmd.port # NoArg /\ ~ValidPortInt(cmd.port)
          \/ cmd.nodes # NoArg /\ ~NonNegativeInt(cmd.nodes)
       THEN phase' = "exit" /\ UNCHANGED args
       ELSE /\ args' = [port |-> cmd.port, nodes |-> cmd.nodes,
                        no_label |-> ~(cmd.basic \/ cmd.verbose)]
            /\ phase' = "hosts"
    /\ UNCHANGED <<cmd, hosts, i, result>>

\* parse_hosts, up to the check: no host source is an ArgumentError; the
\* host file is read and its lines stripped, or open() fails.
ParseHostsStart ==
    /\ phase = "hosts"
    /\ \/ cmd.source = "none" /\ result' = "ArgumentError" /\ phase' = "done"
          /\ UNCHANGED hosts
       \/ cmd.source = "hostlist" /\ hosts' = SplitArgsAtComma(cmd.text)
          /\ phase' = "check" /\ UNCHANGED result
       \/ cmd.source = "hostfile" /\ result' = "ArgumentError" /\ phase' = "done"
          /\ UNCHANGED hosts
       \/ /\ cmd.source = "hostfile" /\ phase' = "check" /\ UNCHANGED result
          /\ hosts' = [k \in DOMAIN ReadLines(cmd.text) |-> Strip(ReadLines(cmd.text)[k])]
    /\ UNCHANGED <<cmd, args, i>>

\* One pass of the loop: an invalid name raises ValueError, the empty name
\* an IndexError out of is_hostname_valid; parse_hosts re-raises both.
CheckHost ==
    /\ phase = "check" /\ i <= Len(hosts)
    /\ CASE IsHostnameValid(hosts[i]) = "valid" ->
              i' = i + 1 /\ UNCHANGED <<phase, result>>
         [] IsHostnameValid(hosts[i]) = "invalid" ->
              result' = "ValueError" /\ phase' = "done" /\ UNCHANGED i
         [] OTHER ->
              result' = "IndexError" /\ phase' = "done" /\ UNCHANGED i
    /\ UNCHANGED <<cmd, args, hosts>>

HostsDone ==
    /\ phase = "check" /\ i > Len(hosts)
    /\ result' = "ok" /\ phase' = "done"
    /\ UNCHANGED <<cmd, args, hosts, i>>

Next == GetArgs \/ ParseHostsStart \/ CheckHost \/ HostsDone

\* The front end runs to its end, then the launcher goes on without it.
Spec == Init /\ [][Next]_vars

-----------------------------------------------------------------------------
(***************************************************************************)
(* Specification, launcher CLI: a hostname is valid when every label       *)
(* matches the label regex and it has at most 255 characters.  Whatever    *)
(* the host list or host file holds, parse_hosts returns a list only when  *)
(* is_hostname_valid accepted every name in it as the rule does; the       *)
(* label regex, the trailing-dot strip, the comma split and the line       *)
(* splitting and stripping of the host file all take part.                 *)
(***************************************************************************)
AcceptedHostsValid ==
    result = "ok" => \A k \in DOMAIN hosts : SpecHostname(hosts[k])

(***************************************************************************)
(* The other direction: the ValueError parse_hosts raises names a host     *)
(* that the specification's rule rejects, so no valid host list is         *)
(* refused for a name that is valid.                                       *)
(***************************************************************************)
RejectionJustified ==
    result = "ValueError" => ~SpecHostname(hosts[i])

(***************************************************************************)
(* parse_hosts fails only with the errors it documents: ArgumentError for  *)
(* a missing or unreadable host source, ValueError for an invalid host.    *)
(***************************************************************************)
HostErrorsDocumented ==
    result \in {"none", "ok", "ValueError", "ArgumentError"}

(***************************************************************************)
(* Specification, launcher CLI: -p/--port takes a port in 1024-65535;      *)
(* valid_port_int's error message says the same.                           *)
(***************************************************************************)
PortInRange ==
    phase # "args" /\ phase # "exit" /\ args.port # NoArg
        => args.port \in 1024..65535
=============================================================================
