------------------------------- MODULE Config -------------------------------
(***************************************************************************)
(* Where the settings come from: internal/config/config.go, as run of      *)
(* cmd/rmq-exporter/main.go calls it.                                      *)
(*                                                                         *)
(* A setting is given as a text by the command line, the environment and   *)
(* the YAML file, or not at all.  Four settings stand for all, one for     *)
(* each way in which a text is read: a boolean or a number (enabled), a    *)
(* duration, which the file has as a string (cacheTTL), and two strings    *)
(* that are looked at later, a cron expression and the memory limit.  "x"  *)
(* is a text that is none of these.                                        *)
(***************************************************************************)
EXTENDS Naturals

Setting == {"enabled", "cacheTTL", "cron", "goMemLimit"}

\* Of six fields with the seconds, or of five without.
Texts ==
  [enabled |-> {"true", "false", "x"}, cacheTTL |-> {"60s", "90s", "x"},
   cron |-> {"six", "five", "x"}, goMemLimit |-> {"", "1GiB", "x"}]

Default ==
  [enabled |-> "true", cacheTTL |-> "60s", cron |-> "six", goMemLimit |-> ""]

(* What the process is given:
     flag, env   the texts of the settings that are given there
     file        those of the file, which may not be readable
     path        how the path of the file is given: by "--config p",
                 "--config=p", "-config=p" or "RMQ_CONFIG", by "--config"
                 as the last argument, or "none"                            *)
Given == [flag |-> <<>>, env |-> <<>>, file |-> <<>>, readable |-> FALSE,
          path |-> "none"]

Or(f, g) ==
  [s \in DOMAIN f \cup DOMAIN g |-> IF s \in DOMAIN f THEN f[s] ELSE g[s]]

IsString(s) == s \in {"cron", "goMemLimit"}

\* A setting that is no string has a text that can be parsed.
Parses(s, text) == IsString(s) \/ text # "x"

\* -config=p is not among the forms that are looked for.
FindConfigPath(given) ==
  given.path \in {"--config p", "--config=p", "RMQ_CONFIG"}

\* LoadYAML: a number or a boolean that is none makes the file unreadable.
LoadYAML(given) ==
  /\ given.readable
  /\ "enabled" \in DOMAIN given.file => Parses("enabled", given.file.enabled)

\* The keys that the file has replace the value of base.
Overlay(base, file) == Or(file, base)

OverlayError(file) ==
  "cacheTTL" \in DOMAIN file /\ ~ Parses("cacheTTL", file.cacheTTL)

OverlayFileError(given) == ~ LoadYAML(given) \/ OverlayError(given.file)

\* Mutant of RegisterFlags: the environment is applied to what was parsed.
RegisterFlagsFirst(base, given) ==
  LET usable == {s \in DOMAIN given.env : Parses(s, given.env[s])}
  IN  Or([s \in usable |-> given.env[s]], Or(given.flag, base))

\* The environment gives a flag its default, if it can be parsed; then
\* flag.Parse.
RegisterFlags(base, given) ==
  LET usable == {s \in DOMAIN given.env : Parses(s, given.env[s])}
  IN  Or(given.flag, Or([s \in usable |-> given.env[s]], base))

\* flag.Parse ends the process on a text it cannot parse, or if --config has
\* no argument.
FlagError(given) ==
  \/ given.path = "--config"
  \/ \E s \in DOMAIN given.flag : ~ Parses(s, given.flag[s])

\* The parser of ValidateCron takes an expression without seconds too.
ValidateCron(expr) == expr # "x"

ParseMemLimit(s) == s # "x"

\* The outcome of the first part of run: "return" with an error, "exit", or
\* the settings it goes on with.
Load(given) ==
  LET base == IF FindConfigPath(given) THEN Overlay(Default, given.file) ELSE Default
      cfg == RegisterFlags(base, given)
      outcome ==
        IF FindConfigPath(given) /\ OverlayFileError(given) THEN "return"
        ELSE IF FlagError(given) THEN "exit"
        ELSE IF ValidateCron(cfg.cron) /\ ParseMemLimit(cfg.goMemLimit) THEN "go on"
        ELSE "return"
  IN  [outcome |-> outcome, cfg |-> cfg]

-----------------------------------------------------------------------------
\* The sources of the settings, the best one first.
Sources(given) == <<given.flag, given.env, given.file, Default>>

\* The n-th source counts for setting s: it is given there, in the
\* environment as a text that can be parsed, in the file if it is read.
Counts(n, s, given) ==
  /\ s \in DOMAIN Sources(given)[n]
  /\ n = 2 => Parses(s, given.env[s])
  /\ n = 3 => FindConfigPath(given)

\* The text of the best source that counts.
Best(s, given) ==
  LET n == CHOOSE n \in 1 .. 4 : /\ Counts(n, s, given)
                                 /\ \A k \in 1 .. 4 : k < n => ~ Counts(k, s, given)
  IN  Sources(given)[n][s]

=============================================================================
